---- MODULE Spec2Model ----
(***************************************************************************)
(* State-machine model of the test composition engine of mtx-maaster       *)
(* (app/services/test_service.py) over the Mongo-backed repository         *)
(* (app/db/session.py).                                                    *)
(*                                                                         *)
(* A handler is an operator from the stored aggregate and the request to   *)
(* a result [status, detail, test, ret]: status/detail are the HTTP        *)
(* outcome (200 when no exception is raised), test is what the tests       *)
(* collection holds for the id after the call (an Optional), ret is the    *)
(* value returned.  One action per handler applies it atomically, as the   *)
(* service runs each request synchronously to completion.                  *)
(*                                                                         *)
(* Timestamps (created_at/updated_at) and display-only metadata (name,     *)
(* description, settings, tags, ...) are left out of the aggregate.        *)
(***************************************************************************)
EXTENDS Integers, Sequences, FiniteSets, TLC

VARIABLES
    tests,      \* the tests collection: a function test_id -> stored document
    last,       \* the last call that returned without raising: [op, req]
    now,        \* the clock datetime.utcnow() / time.time() reads
    storage,    \* the question documents of the repository, in insertion order
    rng,        \* the state of the process-wide generator of the random module
    _requests,  \* RateLimiter._requests: hashed api key -> admitted timestamps
    pc,         \* per request thread of the rate limiter: where it stands
    admitted,   \* every timestamp the rate limiter has admitted, in order
    topics,     \* the topics collection: a function topic id -> stored document
    calls       \* per thread serving a request to the test service: where it stands

vars == <<tests, last, now, storage, rng, _requests, pc, admitted, topics, calls>>

\* the state of the question repository and of the random module
questionVars == <<storage, rng>>
\* the state of the rate limiter and of the threads calling it
limiterVars == <<_requests, pc, admitted>>

\* No question document is stored and the generator is in its first state.
NoQuestionDocs == storage = <<>> /\ rng = 0
\* No request has reached the rate limiter.
NoRequests == _requests = <<>> /\ pc = <<>> /\ admitted = <<>>
\* No topic is stored.
NoTopics == topics = <<>>
\* No thread is serving a request to the test service.
NoCalls == calls = <<>>

-----------------------------------------------------------------------------
(* Python values *)

\* Optional[T]: None is the empty tuple, a present value v is <<v>>.
None == <<>>
Some(v) == <<v>>
IsNone(o) == o = <<>>
Val(o) == o[1]

Min(S) == CHOOSE x \in S : \A y \in S : x <= y
Max(S) == CHOOSE x \in S : \A y \in S : x >= y

Range(s) == {s[i] : i \in DOMAIN s}

\* All sequences over S of length 0..n.
SeqsUpTo(S, n) == UNION {[1..k -> S] : k \in 0..n}

\* sorted(ints)
RECURSIVE SortInts(_)
SortInts(s) ==
    IF s = <<>> THEN <<>>
    ELSE LET m == Min(Range(s))
             i == Min({j \in DOMAIN s : s[j] = m})
         IN <<m>> \o SortInts(SubSeq(s, 1, i - 1) \o SubSeq(s, i + 1, Len(s)))

\* sorted(refs, key=lambda q: q.seq): Python's sort is stable.
RECURSIVE SortBySeq(_)
SortBySeq(qs) ==
    IF qs = <<>> THEN <<>>
    ELSE LET m == Min({qs[j].seq : j \in DOMAIN qs})
             i == Min({j \in DOMAIN qs : qs[j].seq = m})
         IN <<qs[i]>> \o SortBySeq(SubSeq(qs, 1, i - 1) \o SubSeq(qs, i + 1, Len(qs)))

\* An exception travelling up the call stack; status 200 stands for "none raised".
NoExc == [status |-> 200, detail |-> ""]
HTTPException(code, detail) == [status |-> code, detail |-> detail]
Raised(e) == e.status # 200

\* A handler's outcome.
Returned(stored, ret) == [status |-> 200, detail |-> "", test |-> stored, ret |-> ret]
Failed(e, stored) == [status |-> e.status, detail |-> e.detail, test |-> stored, ret |-> <<>>]

-----------------------------------------------------------------------------
(* The collections the engine reads: subjects and questions *)

SubjectStore == {"phy", "chem"}

Scheme(c, i) == [correct |-> c, incorrect |-> i]

\* The questions collection in natural (insertion) order.  Legacy documents
\* carry no schema_version; q3 is a schema_version=2 question document.
QuestionStore == <<
    [question_id |-> "q1", question_type |-> "MCQ", subject_id |-> "phy",
     topic_ids |-> <<"t1">>, difficulty |-> 2, is_active |-> TRUE],
    [question_id |-> "q2", question_type |-> "NAT", subject_id |-> "phy",
     topic_ids |-> <<"t2">>, difficulty |-> 1, is_active |-> TRUE],
    [question_id |-> "q3", schema_version |-> 2, type |-> "multi_choice",
     taxonomy |-> [subject_id |-> "phy", topic_ids |-> <<"t1">>],
     difficulty |-> 1, usage |-> [is_active |-> TRUE]],
    [question_id |-> "q4", question_type |-> "MCQ", subject_id |-> "chem",
     topic_ids |-> <<"t3">>, difficulty |-> 3, is_active |-> TRUE]
>>

\* Database._question_from_doc: the QuestionResponse of a stored document.
_question_from_doc(doc) ==
    IF "schema_version" \in DOMAIN doc /\ doc.schema_version = 2
    THEN [question_id |-> doc.question_id,
          question_type |-> CASE doc.type = "single_choice" -> "MCQ"
                              [] doc.type = "multi_choice" -> "MSQ"
                              [] doc.type = "integer" -> "NAT"
                              [] doc.type = "short_text" -> "NAT"
                              [] doc.type = "true_false" -> "MCQ"
                              [] OTHER -> "MCQ",
          subject_id |-> doc.taxonomy.subject_id,
          topic_ids |-> doc.taxonomy.topic_ids,
          difficulty |-> doc.difficulty,
          is_active |-> doc.usage.is_active]
    ELSE [question_id |-> doc.question_id,
          question_type |-> doc.question_type,
          subject_id |-> doc.subject_id,
          topic_ids |-> doc.topic_ids,
          difficulty |-> doc.difficulty,
          is_active |-> doc.is_active]

\* [self._question_from_doc(d) for d in docs]
QuestionsFromDocs(docs) == [i \in DOMAIN docs |-> _question_from_doc(docs[i])]

\* variant: one lookup per requested id, so a repeated id is returned twice
get_questions_one_by_one(question_ids) ==
    LET Known(qid) == \E i \in DOMAIN QuestionStore : QuestionStore[i].question_id = qid
        Lookup(qid) ==
            QuestionStore[Min({i \in DOMAIN QuestionStore : QuestionStore[i].question_id = qid})]
        known == SelectSeq(question_ids, Known)
    IN QuestionsFromDocs([i \in DOMAIN known |-> Lookup(known[i])])

\* Database.get_questions_by_ids: find({"question_id": {"$in": ids}}); each
\* matching document once, in natural order, whatever the order of ids.
get_questions_by_ids(question_ids) ==
    IF question_ids = <<>> THEN <<>>
    ELSE LET InIds(doc) == doc.question_id \in Range(question_ids)
         IN QuestionsFromDocs(SelectSeq(QuestionStore, InIds))

\* A Mongo filter document of find_questions against one stored document.
\* {"$ne": 2} also matches a document without the field; {"$in": xs} on an
\* array field matches when any element is in xs.
QueryMatches(doc, query) ==
    /\ ~("schema_version" \in DOMAIN doc /\ doc.schema_version = 2)
    /\ "subject_id" \in DOMAIN doc /\ doc.subject_id = query.subject_id
    /\ "is_active" \in DOMAIN doc /\ doc.is_active = query.is_active
    /\ "topic_ids" \in DOMAIN query =>
           \E i \in DOMAIN doc.topic_ids : doc.topic_ids[i] \in Range(query.topic_ids)
    /\ "difficulty" \in DOMAIN query => doc.difficulty \in Range(query.difficulty)
    /\ "question_type" \in DOMAIN query => doc.question_type \in Range(query.question_type)

\* Ascending string order of the question ids of the store.
IdRank(question_id) ==
    CASE question_id = "q1" -> 1 [] question_id = "q2" -> 2 [] question_id = "q3" -> 3
      [] question_id = "q4" -> 4 [] OTHER -> 5

\* cursor.sort([(field, 1)]): ascending by keys[i], the key of docs[i]; documents
\* with equal keys stay in natural order
RECURSIVE SortDocs(_, _)
SortDocs(docs, keys) ==
    IF docs = <<>> THEN <<>>
    ELSE LET m == Min(Range(keys))
             i == Min({j \in DOMAIN keys : keys[j] = m})
             Drop(s) == SubSeq(s, 1, i - 1) \o SubSeq(s, i + 1, Len(s))
         IN <<docs[i]>> \o SortDocs(Drop(docs), Drop(keys))

Take(s, n) == SubSeq(s, 1, IF n < Len(s) THEN n ELSE Len(s))

\* Database.find_questions: the set of lists the call can return.  With sample
\* the $sample stage draws min(sample, total) matching documents in an
\* arbitrary order; otherwise the cursor is sorted and limited.
\* sort is "" (none), "difficulty" or "question_id"; limit/sample 0 stand for None.
find_questions(query, limit, sort, sample) ==
    LET M(doc) == QueryMatches(doc, query)
        matching == SelectSeq(QuestionStore, M)
        total == Len(matching)
        ByDifficulty(doc) == doc.difficulty
        ById(doc) == IdRank(doc.question_id)
    IN IF sample # 0
       THEN LET sample_size == IF sample < total THEN sample ELSE total
            IN IF sample_size = 0 THEN {<<>>}
               ELSE {QuestionsFromDocs([i \in 1..sample_size |-> matching[pick[i]]]) :
                        pick \in {f \in [1..sample_size -> 1..total] :
                                     \A a, b \in 1..sample_size : a # b => f[a] # f[b]}}
       ELSE LET sorted == CASE sort = "difficulty" -> SortDocs(matching, [i \in DOMAIN matching |-> ByDifficulty(matching[i])])
                            [] sort = "question_id" -> SortDocs(matching, [i \in DOMAIN matching |-> ById(matching[i])])
                            [] OTHER -> matching
                limited == IF limit # 0 THEN Take(sorted, limit) ELSE sorted
            IN {QuestionsFromDocs(limited)}

-----------------------------------------------------------------------------
(* Helpers of the service *)

\* db.get_test / _get_test: Optional stored aggregate
_get_test(db, test_id) == IF test_id \in DOMAIN db THEN Some(db[test_id]) ELSE None

\* _get_section: the first section of the pattern with the id, None when absent (404)
_get_section(test, section_id) ==
    LET hits == {i \in DOMAIN test.pattern.sections :
                    test.pattern.sections[i].section_id = section_id}
    IN IF hits = {} THEN None ELSE Some(test.pattern.sections[Min(hits)])

RECURSIVE SumTotals(_)
SumTotals(sections) ==
    IF sections = <<>> THEN 0
    ELSE sections[1].total_questions + SumTotals(Tail(sections))

\* the for loop of _validate_sections from section i on, with the ids seen so far
RECURSIVE _validate_sections_loop(_, _, _)
_validate_sections_loop(sections, i, section_ids) ==
    IF i > Len(sections) THEN NoExc
    ELSE IF sections[i].section_id \in section_ids
         THEN HTTPException(400, "Duplicate section_id in pattern")
    ELSE IF sections[i].subject_id \notin SubjectStore
         THEN HTTPException(400, "Subject not found for section")
    ELSE _validate_sections_loop(sections, i + 1, section_ids \cup {sections[i].section_id})

\* variant: the loop alone, without the comparison of the totals
validate_sections_loop_only(pattern) ==
    _validate_sections_loop(pattern.sections, 1, {})

_validate_sections(pattern) ==
    LET e == _validate_sections_loop(pattern.sections, 1, {})
    IN IF Raised(e) THEN e
       ELSE IF pattern.total_questions # SumTotals(pattern.sections)
            THEN HTTPException(400, "pattern.total_questions must equal sum of section total_questions")
       ELSE NoExc

\* variant: only rejects repeated seq values, not gaps or a start other than 1
ensure_sequences_distinct(questions) ==
    LET seqs == [i \in DOMAIN questions |-> questions[i].seq]
    IN IF Len(seqs) # Cardinality(Range(seqs))
       THEN HTTPException(400, "Question sequences must be continuous starting from 1 without gaps")
       ELSE NoExc

_ensure_sequences_contiguous(questions) ==
    IF questions = <<>> THEN NoExc
    ELSE LET seqs == SortInts([i \in DOMAIN questions |-> questions[i].seq])
             expected == [i \in 1..Len(seqs) |-> i]
         IN IF seqs # expected
            THEN HTTPException(400, "Question sequences must be continuous starting from 1 without gaps")
            ELSE NoExc

\* Counter(q.section_id for q in questions).get(section_id, 0)
SectionCount(questions, section_id) ==
    Cardinality({i \in DOMAIN questions : questions[i].section_id = section_id})

_basic_question_set_checks(test) ==
    LET question_ids == [i \in DOMAIN test.questions |-> test.questions[i].question_id]
        e == _ensure_sequences_contiguous(test.questions)
    IN IF Len(question_ids) # Cardinality(Range(question_ids))
       THEN HTTPException(400, "Duplicate question_ids in test")
       ELSE IF Raised(e) THEN e
       ELSE IF \E i \in DOMAIN test.pattern.sections :
                  SectionCount(test.questions, test.pattern.sections[i].section_id)
                      > test.pattern.sections[i].total_questions
            THEN HTTPException(400, "Section exceeds total_questions")
       ELSE IF Len(test.questions) > test.pattern.total_questions
            THEN HTTPException(400, "Test question limit exceeded")
       ELSE NoExc

\* section.marking_scheme.get(question_type)
SchemeGet(section, question_type) ==
    IF question_type \in DOMAIN section.marking_scheme
    THEN Some(section.marking_scheme[question_type]) ELSE None

\* variant: "override or scheme value", which drops an override of 0
build_question_ref_truthy(section, question, seq, marks_override, negative_override, is_bonus, is_optional) ==
    LET scheme == SchemeGet(section, question.question_type)
        Falsy(o) == IsNone(o) \/ Val(o) = 0
    IN IF section.subject_id # question.subject_id
       THEN [exc |-> HTTPException(400, "Question does not belong to section subject"), ref |-> None]
       ELSE IF IsNone(scheme)
       THEN [exc |-> HTTPException(400, "No marking scheme for question type in section"), ref |-> None]
       ELSE [exc |-> NoExc,
             ref |-> Some([seq |-> seq,
                           section_id |-> section.section_id,
                           question_id |-> question.question_id,
                           question_type |-> question.question_type,
                           subject_id |-> question.subject_id,
                           topic_ids |-> question.topic_ids,
                           difficulty |-> question.difficulty,
                           marks |-> IF ~Falsy(marks_override) THEN marks_override
                                     ELSE Some(Val(scheme).correct),
                           negative_marks |-> IF ~Falsy(negative_override) THEN negative_override
                                              ELSE Some(Val(scheme).incorrect),
                           is_bonus |-> is_bonus,
                           is_optional |-> is_optional])]

\* _build_question_ref: [exc, ref]; ref is meaningful only when nothing is raised
_build_question_ref(section, question, seq, marks_override, negative_override, is_bonus, is_optional) ==
    LET scheme == SchemeGet(section, question.question_type)
    IN IF section.subject_id # question.subject_id
       THEN [exc |-> HTTPException(400, "Question does not belong to section subject"), ref |-> None]
       ELSE IF IsNone(scheme)
       THEN [exc |-> HTTPException(400, "No marking scheme for question type in section"), ref |-> None]
       ELSE [exc |-> NoExc,
             ref |-> Some([seq |-> seq,
                           section_id |-> section.section_id,
                           question_id |-> question.question_id,
                           question_type |-> question.question_type,
                           subject_id |-> question.subject_id,
                           topic_ids |-> question.topic_ids,
                           difficulty |-> question.difficulty,
                           marks |-> IF ~IsNone(marks_override) THEN marks_override
                                     ELSE Some(Val(scheme).correct),
                           negative_marks |-> IF ~IsNone(negative_override) THEN negative_override
                                              ELSE Some(Val(scheme).incorrect),
                           is_bonus |-> is_bonus,
                           is_optional |-> is_optional])]

\* _fetch_questions_or_fail: [exc, found]
_fetch_questions_or_fail(question_ids) ==
    LET found == get_questions_by_ids(question_ids)
        found_ids == {found[i].question_id : i \in DOMAIN found}
        missing == SelectSeq(question_ids, LAMBDA qid : qid \notin found_ids)
    IN IF missing # <<>>
       THEN [exc |-> HTTPException(404, "Questions not found"), found |-> <<>>]
       ELSE [exc |-> NoExc, found |-> found]

_next_seq(questions) ==
    IF questions = <<>> THEN 1
    ELSE Max({questions[i].seq : i \in DOMAIN questions}) + 1

-----------------------------------------------------------------------------
(* Handlers.  db is the tests collection; the result's test field is the    *)
(* Optional document stored under test_id when the handler ends.            *)

NotFoundTest == HTTPException(404, "Test not found")

\* series documents; none is stored, so only standalone tests can be created
SeriesStore == {}

\* _ensure_series_exists
_ensure_series_exists(series_id) ==
    IF IsNone(series_id) THEN NoExc
    ELSE IF Val(series_id) \notin SeriesStore THEN HTTPException(404, "Test series not found")
    ELSE NoExc

\* _ensure_test_uniques; a standalone series id is fresh, so the
\* (series_id, test_number) pair of a standalone test never collides
_ensure_test_uniques(db, code, slug) ==
    IF \E id \in DOMAIN db : db[id].code = code
    THEN HTTPException(400, "Test code already exists")
    ELSE IF \E id \in DOMAIN db : db[id].slug = slug
    THEN HTTPException(400, "Test slug already exists")
    ELSE NoExc

\* create_test; test_id is the generated id.  The standalone series id is
\* generated before _ensure_series_exists, which therefore sees an id it skips.
create_test(db, test_id, data) ==
    LET e1 == IF IsNone(data.series_id) THEN NoExc ELSE _ensure_series_exists(data.series_id)
        e2 == _ensure_test_uniques(db, data.code, data.slug)
        e3 == _validate_sections(data.pattern)
        test == [code |-> data.code, slug |-> data.slug, pattern |-> data.pattern,
                 status |-> data.status, questions |-> data.questions]
        e4 == _basic_question_set_checks(test)
    IN IF Raised(e1) THEN Failed(e1, _get_test(db, test_id))
       ELSE IF Raised(e2) THEN Failed(e2, _get_test(db, test_id))
       ELSE IF Raised(e3) THEN Failed(e3, _get_test(db, test_id))
       ELSE IF Raised(e4) THEN Failed(e4, _get_test(db, test_id))
       ELSE Returned(Some(test), <<test>>)

\* payload.model_dump(exclude_unset=True): the set fields, nested models as dicts
PyDict(fields) == [py_dict |-> fields]
IsPyDict(obj) == "py_dict" \in DOMAIN obj
model_dump(payload) ==
    [f \in DOMAIN payload |-> IF f = "pattern" THEN PyDict(payload[f]) ELSE payload[f]]

\* existing.copy(update=update_data): fields replaced without validation
copy_update(existing, update_data) ==
    [f \in DOMAIN existing \cup DOMAIN update_data |->
        IF f \in DOMAIN update_data THEN update_data[f] ELSE existing[f]]

\* update_test.  A replaced pattern reaches _validate_sections as the dict
\* model_dump produced, and reading its .sections attribute raises
\* AttributeError, which the framework answers with 500.
update_test(db, test_id, payload) ==
    LET stored == _get_test(db, test_id)
        existing == Val(stored)
        update_data == model_dump(payload)
        merged == copy_update(existing, update_data)
        e1 == _validate_sections(merged.pattern)
        section_ids == {merged.pattern.sections[i].section_id : i \in DOMAIN merged.pattern.sections}
        e2 == _basic_question_set_checks(merged)
    IN IF IsNone(stored) THEN Failed(NotFoundTest, None)
       ELSE IF {"series_id", "test_number", "test_id"} \cap DOMAIN update_data # {}
       THEN Failed(HTTPException(400, "Cannot modify identifiers (series_id, test_number, test_id)"), stored)
       ELSE IF IsPyDict(merged.pattern)
       THEN Failed(HTTPException(500, "AttributeError: 'dict' object has no attribute 'sections'"), stored)
       ELSE IF Raised(e1) THEN Failed(e1, stored)
       ELSE IF \E i \in DOMAIN merged.questions : merged.questions[i].section_id \notin section_ids
       THEN Failed(HTTPException(400, "Question belongs to removed section"), stored)
       ELSE IF Raised(e2) THEN Failed(e2, stored)
       ELSE Returned(Some(merged), <<merged>>)

\* delete_test
delete_test(db, test_id) ==
    IF IsNone(_get_test(db, test_id)) THEN Failed(NotFoundTest, None)
    ELSE Returned(None, <<>>)

\* variant: the section capacity check left out
add_store_without_section_check(test, section, new_refs) ==
    LET updated_questions == SortBySeq(test.questions \o new_refs)
        e == _ensure_sequences_contiguous(updated_questions)
    IN IF Len(updated_questions) > test.pattern.total_questions
       THEN Failed(HTTPException(400, "Test question limit exceeded"), Some(test))
       ELSE IF Raised(e) THEN Failed(e, Some(test))
       ELSE Returned(Some([test EXCEPT !.questions = updated_questions]), new_refs)

\* variant: the aggregate written before the sequence check runs
add_store_write_then_validate(test, section, new_refs) ==
    LET updated_questions == SortBySeq(test.questions \o new_refs)
        section_count == SectionCount(updated_questions, section.section_id)
        e == _ensure_sequences_contiguous(updated_questions)
        written == Some([test EXCEPT !.questions = updated_questions])
    IN IF section_count > section.total_questions
       THEN Failed(HTTPException(400, "Section question limit exceeded"), Some(test))
       ELSE IF Len(updated_questions) > test.pattern.total_questions
       THEN Failed(HTTPException(400, "Test question limit exceeded"), Some(test))
       ELSE IF Raised(e) THEN Failed(e, written)
       ELSE Returned(written, new_refs)

\* add_questions_to_test, lines 296-309: merge, capacity and contiguity checks, write
add_questions_to_test_store(test, section, new_refs) ==
    LET updated_questions == SortBySeq(test.questions \o new_refs)
        section_count == SectionCount(updated_questions, section.section_id)
        e == _ensure_sequences_contiguous(updated_questions)
    IN IF section_count > section.total_questions
       THEN Failed(HTTPException(400, "Section question limit exceeded"), Some(test))
       ELSE IF Len(updated_questions) > test.pattern.total_questions
       THEN Failed(HTTPException(400, "Test question limit exceeded"), Some(test))
       ELSE IF Raised(e) THEN Failed(e, Some(test))
       ELSE Returned(Some([test EXCEPT !.questions = updated_questions]), new_refs)

\* payload.starting_seq or _next_seq(test.questions): None and 0 are falsy
StartSeq(starting_seq, questions) ==
    IF ~IsNone(starting_seq) /\ Val(starting_seq) # 0 THEN Val(starting_seq)
    ELSE _next_seq(questions)

\* the first exception a list of _build_question_ref results raises, else NoExc
FirstRaised(built) ==
    LET bad == {i \in DOMAIN built : Raised(built[i].exc)}
    IN IF bad = {} THEN NoExc ELSE built[Min(bad)].exc

\* add_questions_to_test
add_questions_to_test(db, test_id, payload) ==
    LET stored == _get_test(db, test_id)
        test == Val(stored)
        section == _get_section(test, payload.section_id)
        existing_ids == {test.questions[i].question_id : i \in DOMAIN test.questions}
        duplicate == SelectSeq(payload.question_ids, LAMBDA qid : qid \in existing_ids)
        fetched == _fetch_questions_or_fail(payload.question_ids)
        questions == fetched.found
        start_seq == StartSeq(payload.starting_seq, test.questions)
        built == [i \in DOMAIN questions |->
                    _build_question_ref(Val(section), questions[i], start_seq + i - 1,
                                        payload.marks, payload.negative_marks,
                                        payload.is_bonus, payload.is_optional)]
        new_refs == [i \in DOMAIN built |-> Val(built[i].ref)]
    IN IF IsNone(stored) THEN Failed(NotFoundTest, None)
       ELSE IF IsNone(section) THEN Failed(HTTPException(404, "Section not found"), stored)
       ELSE IF payload.question_ids = <<>>
       THEN Failed(HTTPException(400, "question_ids required"), stored)
       ELSE IF ~IsNone(payload.starting_seq) /\ Val(payload.starting_seq) < 1
       THEN Failed(HTTPException(400, "starting_seq must be >= 1"), stored)
       ELSE IF duplicate # <<>>
       THEN Failed(HTTPException(400, "Duplicate questions already in test"), stored)
       ELSE IF Raised(fetched.exc) THEN Failed(fetched.exc, stored)
       ELSE IF Raised(FirstRaised(built)) THEN Failed(FirstRaised(built), stored)
       ELSE add_questions_to_test_store(test, Val(section), new_refs)

\* bulk_add_questions, lines 326-332: the filter document built from the criteria
\* (an unset or empty list adds no key)
bulk_query(criteria) ==
    LET keys == {"subject_id", "is_active"}
                  \cup {f \in {"topic_ids", "difficulty"} : criteria[f] # <<>>}
                  \cup (IF criteria.question_types # <<>> THEN {"question_type"} ELSE {})
    IN [k \in keys |-> CASE k = "subject_id" -> criteria.subject_id
                         [] k = "is_active" -> TRUE
                         [] k = "question_type" -> criteria.question_types
                         [] OTHER -> criteria[k]]

\* bulk_add_questions, lines 334-340: what db.find_questions can return for the payload
bulk_candidates(payload) ==
    LET query == bulk_query(payload.criteria)
    IN IF payload.strategy = "random" THEN find_questions(query, 0, "", payload.count)
       ELSE IF payload.strategy = "difficulty_sorted"
       THEN find_questions(query, payload.count, "difficulty", 0)
       ELSE find_questions(query, payload.count, "question_id", 0)

\* bulk_add_questions, lines 373-379
bulk_add_questions_store(test, new_refs) ==
    LET updated_questions == SortBySeq(test.questions \o new_refs)
        e == _ensure_sequences_contiguous(updated_questions)
    IN IF Raised(e) THEN Failed(e, Some(test))
       ELSE Returned(Some([test EXCEPT !.questions = updated_questions]), new_refs)

\* bulk_add_questions; questions is the list db.find_questions returned
bulk_add_questions(db, test_id, payload, questions) ==
    LET stored == _get_test(db, test_id)
        test == Val(stored)
        section == _get_section(test, payload.section_id)
        existing_ids == {test.questions[i].question_id : i \in DOMAIN test.questions}
        duplicates == SelectSeq(questions, LAMBDA q : q.question_id \in existing_ids)
        start_seq == StartSeq(payload.starting_seq, test.questions)
        chosen == Take(questions, payload.count)
        built == [i \in DOMAIN chosen |->
                    _build_question_ref(Val(section), chosen[i], start_seq + i - 1,
                                        None, None, FALSE, FALSE)]
        new_refs == [i \in DOMAIN built |-> Val(built[i].ref)]
    IN IF IsNone(stored) THEN Failed(NotFoundTest, None)
       ELSE IF IsNone(section) THEN Failed(HTTPException(404, "Section not found"), stored)
       ELSE IF payload.count <= 0
       THEN Failed(HTTPException(400, "count must be greater than 0"), stored)
       ELSE IF payload.criteria.subject_id # Val(section).subject_id
       THEN Failed(HTTPException(400, "Criteria subject_id must match section subject_id"), stored)
       ELSE IF Len(questions) < payload.count
       THEN Failed(HTTPException(400, "Only found fewer questions matching criteria"), stored)
       ELSE IF duplicates # <<>>
       THEN Failed(HTTPException(400, "Questions already present in test"), stored)
       ELSE IF Raised(FirstRaised(built)) THEN Failed(FirstRaised(built), stored)
       ELSE bulk_add_questions_store(test, new_refs)

\* variant: sorted but not renumbered
resequence_sort_only(questions) == SortBySeq(questions)

\* remove_question, lines 389-391: sort by seq and renumber from 1
Resequence(questions) ==
    LET sorted == SortBySeq(questions)
    IN [idx \in DOMAIN sorted |-> [sorted[idx] EXCEPT !.seq = idx]]

\* remove_question
remove_question(db, test_id, question_id) ==
    LET stored == _get_test(db, test_id)
        test == Val(stored)
        kept == SelectSeq(test.questions, LAMBDA q : q.question_id # question_id)
        questions == Resequence(kept)
        e == _ensure_sequences_contiguous(questions)
    IN IF IsNone(stored) THEN Failed(NotFoundTest, None)
       ELSE IF question_id \notin {test.questions[i].question_id : i \in DOMAIN test.questions}
       THEN Failed(HTTPException(404, "Question not found in test"), stored)
       ELSE IF Raised(e) THEN Failed(e, stored)
       ELSE Returned(Some([test EXCEPT !.questions = questions]), <<>>)

\* Keys of Python dicts compare by type and value.  QuestionReference.question_id
\* is a str; the values of ReorderRequest.question_sequence items are ints
\* (List[Dict[str, int]]).
StrKey(s) == <<"str", s>>
IntKey(n) == <<"int", n>>

\* question_map = {q.question_id: q for q in test.questions}; question_map.get(qid):
\* the index of the reference stored under the key, None when there is none
\* (a later reference with the same id overwrites an earlier one)
question_map_get(questions, qid) ==
    LET hits == {i \in DOMAIN questions : StrKey(questions[i].question_id) = IntKey(qid)}
    IN IF hits = {} THEN None ELSE Some(Max(hits))

\* item.get(key): Optional value
DictGet(item, key) == IF key \in DOMAIN item THEN Some(item[key]) ELSE None

\* the for loop of reorder_questions from item k on; questions is the list of the
\* in-memory aggregate, whose references the loop updates in place
RECURSIVE reorder_loop(_, _, _, _)
reorder_loop(questions, section, updates, k) ==
    IF k > Len(updates) THEN [exc |-> NoExc, questions |-> questions]
    ELSE LET item == updates[k]
             first == DictGet(item, "question_id")
             qid == IF ~IsNone(first) /\ Val(first) # 0 THEN first ELSE DictGet(item, "id")
             seq == DictGet(item, "seq")
             ref == question_map_get(questions, Val(qid))
             Stop(e) == [exc |-> e, questions |-> questions]
         IN IF IsNone(qid) \/ Val(qid) = 0 \/ IsNone(seq)
            THEN Stop(HTTPException(400, "Each item requires question_id and seq"))
            ELSE IF Val(seq) < 1
            THEN Stop(HTTPException(400, "Sequence numbers must be >= 1"))
            ELSE IF IsNone(ref)
            THEN Stop(HTTPException(404, "Question not found in test"))
            ELSE IF questions[Val(ref)].section_id # section.section_id
            THEN Stop(HTTPException(400, "Question does not belong to section"))
            ELSE reorder_loop([questions EXCEPT ![Val(ref)].seq = Val(seq)], section, updates, k + 1)

\* reorder_questions
reorder_questions(db, test_id, payload) ==
    LET stored == _get_test(db, test_id)
        test == Val(stored)
        section == _get_section(test, payload.section_id)
        looped == reorder_loop(test.questions, Val(section), payload.question_sequence, 1)
        questions == looped.questions
        seqs == [i \in DOMAIN questions |-> questions[i].seq]
        e == _ensure_sequences_contiguous(questions)
    IN IF IsNone(stored) THEN Failed(NotFoundTest, None)
       ELSE IF IsNone(section) THEN Failed(HTTPException(404, "Section not found"), stored)
       ELSE IF Raised(looped.exc) THEN Failed(looped.exc, stored)
       ELSE IF Len(seqs) # Cardinality(Range(seqs))
       THEN Failed(HTTPException(400, "Duplicate sequence numbers not allowed"), stored)
       ELSE IF Raised(e) THEN Failed(e, stored)
       ELSE Returned(Some([test EXCEPT !.questions = questions]), SortBySeq(questions))

\* replace_question
replace_question(db, test_id, old_question_id, payload) ==
    LET stored == _get_test(db, test_id)
        test == Val(stored)
        at == {i \in DOMAIN test.questions : test.questions[i].question_id = old_question_id}
        idx == Min(at)
        ref == test.questions[idx]
        section == _get_section(test, ref.section_id)
        others == {test.questions[i].question_id : i \in DOMAIN test.questions \ at}
        fetched == _fetch_questions_or_fail(<<payload.new_question_id>>)
        built == _build_question_ref(Val(section), fetched.found[1],
                                     IF payload.preserve_sequence THEN ref.seq
                                     ELSE _next_seq(test.questions),
                                     ref.marks, ref.negative_marks, ref.is_bonus, ref.is_optional)
        new_ref == Val(built.ref)
        questions == SortBySeq([test.questions EXCEPT ![idx] = new_ref])
        e == _ensure_sequences_contiguous(questions)
    IN IF IsNone(stored) THEN Failed(NotFoundTest, None)
       ELSE IF at = {} THEN Failed(HTTPException(404, "Question not found in test"), stored)
       ELSE IF IsNone(section) THEN Failed(HTTPException(404, "Section not found"), stored)
       ELSE IF payload.new_question_id \in others
       THEN Failed(HTTPException(400, "New question already present in test"), stored)
       ELSE IF Raised(fetched.exc) THEN Failed(fetched.exc, stored)
       ELSE IF Raised(built.exc) THEN Failed(built.exc, stored)
       ELSE IF Raised(e) THEN Failed(e, stored)
       ELSE Returned(Some([test EXCEPT !.questions = questions]), <<new_ref>>)

\* update_question_marks; payload holds the fields the request set
\* (model_dump(exclude_unset=True)), an explicit null as None
update_question_marks(db, test_id, question_id, payload) ==
    LET stored == _get_test(db, test_id)
        test == Val(stored)
        at == {i \in DOMAIN test.questions : test.questions[i].question_id = question_id}
        idx == Min(at)
        ref == [f \in DOMAIN test.questions[idx] |->
                   IF f \in DOMAIN payload THEN payload[f] ELSE test.questions[idx][f]]
    IN IF IsNone(stored) THEN Failed(NotFoundTest, None)
       ELSE IF at = {} THEN Failed(HTTPException(404, "Question not found in test"), stored)
       ELSE Returned(Some([test EXCEPT !.questions[idx] = ref]), <<ref>>)

-----------------------------------------------------------------------------------------------------------------------------------------------------
(* Requests *)

\* longest initial question list of a create_test request
MaxInit == 2
\* largest count of a bulk_add_questions request
MaxCount == 2
\* largest starting_seq a request names
MaxStartSeq == 2

TestIds == {"t1"}

Section(section_id, subject_id, total_questions, marking_scheme) ==
    [section_id |-> section_id, subject_id |-> subject_id,
     total_questions |-> total_questions, marking_scheme |-> marking_scheme]

PhyScheme == "MCQ" :> Scheme(4, -1) @@ "NAT" :> Scheme(3, 0)
ChemScheme == "MCQ" :> Scheme(2, 0)

\* section lists of create_test and update_test requests: two that pass
\* _validate_sections with the right total, a repeated section_id, and a
\* section of the subject "bio", which is not stored
SectionLists ==
    {<<Section("s1", "phy", 2, PhyScheme), Section("s2", "chem", 1, ChemScheme)>>,
     <<Section("s1", "phy", 1, PhyScheme), Section("s2", "chem", 1, ChemScheme)>>,
     <<Section("s1", "phy", 1, PhyScheme), Section("s1", "chem", 1, ChemScheme)>>,
     <<Section("s1", "phy", 1, PhyScheme), Section("s3", "bio", 1, ChemScheme)>>}

PatternChoices ==
    {[total_questions |-> n, sections |-> ss] : n \in {2, 3}, ss \in SectionLists}

\* the QuestionResponse of a stored question
Question(question_id) ==
    _question_from_doc(QuestionStore[Min({i \in DOMAIN QuestionStore :
                                            QuestionStore[i].question_id = question_id})])

\* references a client can send with create_test: the denormalized fields copied
\* from the question, any seq, marks left out; q4 is of another subject than
\* s1, and s9 is a section of no pattern
InitRefChoices ==
    {[seq |-> n, section_id |-> p[1], question_id |-> p[2],
      question_type |-> Question(p[2]).question_type,
      subject_id |-> Question(p[2]).subject_id,
      topic_ids |-> Question(p[2]).topic_ids,
      difficulty |-> Question(p[2]).difficulty,
      marks |-> None, negative_marks |-> None, is_bonus |-> FALSE, is_optional |-> FALSE] :
        n \in 1..MaxInit, p \in {<<"s1", "q1">>, <<"s1", "q4">>, <<"s9", "q2">>}}

CreateRequests ==
    {[code |-> "T1", slug |-> "t-1", series_id |-> sid, pattern |-> p,
      status |-> "draft", questions |-> qs] :
        sid \in {None, Some("series_x")}, p \in PatternChoices,
        qs \in SeqsUpTo(InitRefChoices, MaxInit)}

\* TestUpdate payloads, as the set of fields the request sets: none, the status,
\* the pattern
UpdateRequests ==
    {<<>>} \cup {[status |-> st] : st \in {"draft"}}
           \cup {[pattern |-> p] : p \in PatternChoices}

\* "q9" is the id of no stored question
RequestIds == {"q1", "q2", "q3", "q4", "q9"}

\* question_ids lists: empty, one id, and pairs in both orders, with a repeated
\* id, of two subjects, and with a missing question
AddIdLists ==
    {<<>>} \cup {<<q>> : q \in RequestIds}
           \cup {<<"q1", "q2">>, <<"q2", "q1">>, <<"q1", "q1">>, <<"q1", "q4">>, <<"q2", "q9">>}

\* AddQuestionsRequest: each section and id list, with a starting_seq and no
\* overrides or with overrides and no starting_seq (the overrides go into the
\* marks and flags of a reference, starting_seq into its seq)
AddRequests ==
    {[section_id |-> sec, question_ids |-> ids, starting_seq |-> v[1],
      marks |-> v[2], negative_marks |-> v[3], is_bonus |-> v[4], is_optional |-> v[5]] :
        sec \in {"s1", "s2"},
        ids \in AddIdLists,
        v \in {<<st, None, None, FALSE, FALSE>> : st \in {None, Some(0), Some(MaxStartSeq)}}
                 \cup {<<None, Some(0), Some(0), TRUE, TRUE>>}}

\* BulkAddRequest: every section, subject, count and strategy without
\* starting_seq, with no filter or with all three; with starting_seq 1 the
\* unfiltered requests of the fallback strategy
BulkRequests ==
    {[section_id |-> sec,
      criteria |-> [subject_id |-> sub, topic_ids |-> c[1], difficulty |-> c[2],
                    question_types |-> c[3]],
      count |-> n, strategy |-> v[1], starting_seq |-> v[2]] :
        sec \in {"s1", "s2"}, sub \in {"phy", "chem"},
        c \in {<<<<>>, <<>>, <<>>>>, <<<<"t1", "t2">>, <<1, 2>>, <<"MCQ", "NAT">>>>},
        n \in 0..MaxCount,
        v \in {<<strat, None>> : strat \in {"random", "difficulty_sorted", "sequential"}}
                 \cup {<<"sequential", Some(1)>>}}

\* items of ReorderRequest.question_sequence: Dict[str, int]
ReorderItems ==
    {[question_id |-> k, seq |-> n] : k \in 0..1, n \in 0..1}
        \cup {[id |-> 1, seq |-> 1], [question_id |-> 1]}

ReorderRequests ==
    {[section_id |-> sec, question_sequence |-> items] :
        sec \in {"s1", "s9"}, items \in SeqsUpTo(ReorderItems, 1)}

ReplaceRequests ==
    {[new_question_id |-> q, preserve_sequence |-> b] : q \in RequestIds, b \in BOOLEAN}

\* UpdateMarksRequest payloads, as the fields the request sets
MarksRequests ==
    {[marks |-> Some(0), negative_marks |-> Some(0), is_bonus |-> TRUE, is_optional |-> TRUE]}

-----------------------------------------------------------------------------
(* The state machine *)

\* the tests collection after a handler that leaves r.test under test_id
Stored(test_id, r) ==
    IF IsNone(r.test) THEN [id \in DOMAIN tests \ {test_id} |-> tests[id]]
    ELSE [id \in DOMAIN tests \cup {test_id} |-> IF id = test_id THEN Val(r.test) ELSE tests[id]]

\* A call that returns is recorded in last; one that raises leaves the
\* collection as the handler left it and last as it was.
Serve(op, test_id, req, r) ==
    /\ tests' = Stored(test_id, r)
    /\ last' = IF r.status = 200 THEN [op |-> op, req |-> req] ELSE last
    /\ UNCHANGED <<now, questionVars, limiterVars, topics, calls>>

Init ==
    /\ tests = <<>>
    /\ last = [op |-> "init", req |-> <<>>]
    /\ now = 0
    /\ NoQuestionDocs
    /\ NoRequests
    /\ NoTopics
    /\ NoCalls

\* create_test; the generated test_id is one no stored test has.  Once every id
\* of TestIds is taken only the requests the handler rejects are served.
CreateTest ==
    \E data \in CreateRequests, test_id \in TestIds :
        LET r == create_test(tests, test_id, data)
        IN /\ test_id \notin DOMAIN tests
           /\ Serve("create_test", test_id, data, r)

UpdateTest ==
    \E test_id \in TestIds, payload \in UpdateRequests :
        Serve("update_test", test_id, payload, update_test(tests, test_id, payload))

DeleteTest ==
    \E test_id \in TestIds :
        Serve("delete_test", test_id, <<>>, delete_test(tests, test_id))

AddQuestions ==
    \E test_id \in TestIds, payload \in AddRequests :
        Serve("add_questions_to_test", test_id, payload,
              add_questions_to_test(tests, test_id, payload))

BulkAddQuestions ==
    \E test_id \in TestIds, payload \in BulkRequests :
        \E questions \in (IF payload.count > 0 THEN bulk_candidates(payload) ELSE {<<>>}) :
            Serve("bulk_add_questions", test_id, payload,
                  bulk_add_questions(tests, test_id, payload, questions))

RemoveQuestion ==
    \E test_id \in TestIds, question_id \in RequestIds :
        Serve("remove_question", test_id, [question_id |-> question_id],
              remove_question(tests, test_id, question_id))

ReorderQuestions ==
    \E test_id \in TestIds, payload \in ReorderRequests :
        Serve("reorder_questions", test_id, payload, reorder_questions(tests, test_id, payload))

ReplaceQuestion ==
    \E test_id \in TestIds, old_question_id \in RequestIds, payload \in ReplaceRequests :
        Serve("replace_question", test_id,
              [old_question_id |-> old_question_id, new_question_id |-> payload.new_question_id,
               preserve_sequence |-> payload.preserve_sequence],
              replace_question(tests, test_id, old_question_id, payload))

UpdateQuestionMarks ==
    \E test_id \in TestIds, question_id \in RequestIds, payload \in MarksRequests :
        Serve("update_question_marks", test_id,
              [question_id |-> question_id, patch |-> payload],
              update_question_marks(tests, test_id, question_id, payload))

Next ==
    \/ CreateTest
    \/ UpdateTest
    \/ DeleteTest
    \/ AddQuestions
    \/ BulkAddQuestions
    \/ RemoveQuestion
    \/ ReorderQuestions
    \/ ReplaceQuestion
    \/ UpdateQuestionMarks

Spec == Init /\ [][Next]_vars

-----------------------------------------------------------------------------
(* reorder_questions behind its endpoint, on tests whose question ids are
   decimal strings *)

\* pydantic's str -> int conversion of a Dict[str, int] value: the int of a
\* decimal string, None (a validation error) for any other string
int_parsing(s) ==
    CASE s = "0" -> Some(0) [] s = "1" -> Some(1) [] s = "2" -> Some(2)
      [] s = "3" -> Some(3) [] s = "9" -> Some(9) [] OTHER -> None

\* ReorderRequest validation of a JSON body whose items give question_id as a
\* string and seq as a number: every value becomes an int or the body is refused
ReorderRequest(body) ==
    LET items == body.question_sequence
    IN IF \E i \in DOMAIN items : IsNone(int_parsing(items[i].question_id))
       THEN None
       ELSE Some([section_id |-> body.section_id,
                  question_sequence |->
                      [i \in DOMAIN items |->
                          [question_id |-> Val(int_parsing(items[i].question_id)),
                           seq |-> items[i].seq]]])

\* reorder_questions_endpoint: FastAPI validates the body (422 when refused),
\* then the service runs
reorder_questions_endpoint(db, test_id, body) ==
    LET payload == ReorderRequest(body)
    IN IF IsNone(payload)
       THEN Failed(HTTPException(422, "Input should be a valid integer"), _get_test(db, test_id))
       ELSE reorder_questions(db, test_id, Val(payload))

\* most references of a stored test in this part
MaxRefs == 3

NumberedIds == {"1", "2", "q3"}

\* a reference as create_test stores it, of a phy question in s1 or s2
NumberedRef(question_id, section_id, seq) ==
    [seq |-> seq, section_id |-> section_id, question_id |-> question_id,
     question_type |-> "MCQ", subject_id |-> "phy", topic_ids |-> <<"t1">>, difficulty |-> 1,
     marks |-> None, negative_marks |-> None, is_bonus |-> FALSE, is_optional |-> FALSE]

\* the tests create_test stores for a pattern of two phy sections and up to
\* MaxRefs references with distinct ids and seqs 1..N in any order
NumberedTests ==
    {[code |-> "T1", slug |-> "t-1", status |-> "draft",
      pattern |-> [total_questions |-> 2 * MaxRefs,
                   sections |-> <<Section("s1", "phy", MaxRefs, PhyScheme),
                                  Section("s2", "phy", MaxRefs, PhyScheme)>>],
      questions |-> qs] :
        qs \in {l \in SeqsUpTo({NumberedRef(q, sec, n) : q \in NumberedIds, sec \in {"s1", "s2"},
                                                        n \in 1..MaxRefs}, MaxRefs) :
                   /\ \A i, j \in DOMAIN l : i # j => l[i].question_id # l[j].question_id
                   /\ {l[i].seq : i \in DOMAIN l} = 1..Len(l)}}

\* JSON bodies of the reorder endpoint: up to two items, ids of stored and of
\* other questions, seq 0..MaxRefs
ReorderBodies ==
    {[section_id |-> sec, question_sequence |-> items] :
        sec \in {"s1", "s2"},
        items \in SeqsUpTo({[question_id |-> q, seq |-> n] :
                               q \in NumberedIds \cup {"9"}, n \in 0..MaxRefs}, 2)}

InitReorder ==
    /\ tests \in {[id \in TestIds |-> t] : t \in NumberedTests}
    /\ last = [op |-> "init", req |-> <<>>]
    /\ now = 0
    /\ NoQuestionDocs
    /\ NoRequests
    /\ NoTopics
    /\ NoCalls

ReorderNumbered ==
    \E test_id \in TestIds, body \in ReorderBodies :
        Serve("reorder_questions", test_id, body, reorder_questions_endpoint(tests, test_id, body))

RemoveNumbered ==
    \E test_id \in TestIds, question_id \in NumberedIds :
        Serve("remove_question", test_id, [question_id |-> question_id],
              remove_question(tests, test_id, question_id))

NextReorder ==
    \/ ReorderNumbered
    \/ RemoveNumbered

SpecReorder == InitReorder /\ [][NextReorder]_vars

-----------------------------------------------------------------------------
(* The solutions release gate *)

\* the answer fields of the stored questions: correct_option_id of an MCQ,
\* answer_value of a NAT, answer_key.option_ids of the schema_version=2 MSQ
AnswerStore ==
    [question_id \in {"q1", "q2", "q3", "q4"} |->
        CASE question_id = "q1" -> "a"
          [] question_id = "q2" -> "42"
          [] question_id = "q3" -> <<"a", "b">>
          [] question_id = "q4" -> "c"]

\* variant: a release at this very instant is not yet released
ensure_released_strictly_after(test, utcnow) ==
    LET cfg == test.solutions
    IN IF ~cfg.has_solutions \/ cfg.release_mode = "never"
       THEN HTTPException(403, "Solutions are not available")
       ELSE IF cfg.release_mode = "scheduled" /\ IsNone(cfg.release_at)
       THEN HTTPException(403, "Solutions release not scheduled")
       ELSE IF cfg.release_mode = "scheduled" /\ utcnow <= Val(cfg.release_at)
       THEN HTTPException(403, "Solutions not released yet")
       ELSE IF cfg.release_mode = "manual"
       THEN HTTPException(403, "Solutions require manual release")
       ELSE NoExc

\* _ensure_solutions_released; utcnow is the value datetime.utcnow() returns
_ensure_solutions_released(test, utcnow) ==
    LET cfg == test.solutions
    IN IF ~cfg.has_solutions \/ cfg.release_mode = "never"
       THEN HTTPException(403, "Solutions are not available")
       ELSE IF cfg.release_mode = "scheduled" /\ IsNone(cfg.release_at)
       THEN HTTPException(403, "Solutions release not scheduled")
       ELSE IF cfg.release_mode = "scheduled" /\ utcnow < Val(cfg.release_at)
       THEN HTTPException(403, "Solutions not released yet")
       ELSE IF cfg.release_mode = "manual"
       THEN HTTPException(403, "Solutions require manual release")
       ELSE NoExc

\* _build_question_map: the ids that resolve, each with its QuestionResponse
_build_question_map(question_ids) ==
    LET questions == get_questions_by_ids(question_ids)
    IN [question_id \in {questions[i].question_id : i \in DOMAIN questions} |->
           questions[Max({i \in DOMAIN questions : questions[i].question_id = question_id})]]

\* a read leaves the stored test as it is; ret is what the call returns
Answered(db, test_id, ret) == [status |-> 200, detail |-> "", test |-> _get_test(db, test_id), ret |-> ret]

\* get_test_with_solutions: the references in seq order, each merged with its
\* question and the question's answer
get_test_with_solutions(db, test_id, utcnow) ==
    LET stored == _get_test(db, test_id)
        test == Val(stored)
        e == _ensure_solutions_released(test, utcnow)
        question_ids == [i \in DOMAIN test.questions |-> test.questions[i].question_id]
        q_map == _build_question_map(question_ids)
        sorted == SortBySeq(test.questions)
    IN IF IsNone(stored) THEN Failed(NotFoundTest, None)
       ELSE IF Raised(e) THEN Failed(e, stored)
       ELSE IF \E i \in DOMAIN question_ids : question_ids[i] \notin DOMAIN q_map
       THEN Failed(HTTPException(404, "Missing questions"), stored)
       ELSE Answered(db, test_id,
                     [i \in DOMAIN sorted |->
                         [seq |-> sorted[i].seq, question_id |-> sorted[i].question_id,
                          question_type |-> q_map[sorted[i].question_id].question_type,
                          answer |-> AnswerStore[sorted[i].question_id]]])

\* get_answer_key: a dict question_id -> answer, as the list of its items in
\* insertion order
get_answer_key(db, test_id, utcnow) ==
    LET stored == _get_test(db, test_id)
        test == Val(stored)
        e == _ensure_solutions_released(test, utcnow)
        question_ids == [i \in DOMAIN test.questions |-> test.questions[i].question_id]
        q_map == _build_question_map(question_ids)
    IN IF IsNone(stored) THEN Failed(NotFoundTest, None)
       ELSE IF Raised(e) THEN Failed(e, stored)
       ELSE IF \E i \in DOMAIN question_ids : question_ids[i] \notin DOMAIN q_map
       THEN Failed(HTTPException(404, "Missing questions"), stored)
       ELSE LET first == SelectSeq([i \in DOMAIN question_ids |-> i],
                                   LAMBDA i : \A j \in 1..(i - 1) : question_ids[j] # question_ids[i])
            IN Answered(db, test_id,
                        [k \in DOMAIN first |->
                            [question_id |-> question_ids[first[k]],
                             answer |-> AnswerStore[question_ids[first[k]]]]])

\* latest instant of the clock and of a release_at
MaxNow == 1

\* SolutionsConfig values
SolutionsConfigs ==
    {[has_solutions |-> h, release_mode |-> m, release_at |-> at] :
        h \in BOOLEAN, m \in {"after_submission", "scheduled", "manual", "never"},
        at \in {None} \cup {Some(t) : t \in 0..MaxNow}}

\* question lists of the stored tests of this part: none, two stored
\* questions out of seq order, and one with a reference to a question "q9"
\* that is not stored
ReleaseQuestionLists ==
    {<<>>,
     <<NumberedRef("q2", "s1", 2), NumberedRef("q1", "s1", 1)>>,
     <<NumberedRef("q1", "s1", 1), NumberedRef("q9", "s1", 2)>>}

ReleaseTests ==
    {[code |-> "T1", slug |-> "t-1", status |-> "draft",
      pattern |-> [total_questions |-> 2, sections |-> <<Section("s1", "phy", 2, PhyScheme)>>],
      questions |-> qs, solutions |-> cfg] :
        qs \in ReleaseQuestionLists, cfg \in SolutionsConfigs}

InitRelease ==
    /\ tests \in {[id \in TestIds |-> t] : t \in ReleaseTests}
    /\ last = [op |-> "init", req |-> <<>>]
    /\ now = 0
    /\ NoQuestionDocs
    /\ NoRequests
    /\ NoTopics
    /\ NoCalls

GetTestWithSolutions ==
    \E test_id \in TestIds :
        Serve("get_test_with_solutions", test_id, <<>>, get_test_with_solutions(tests, test_id, now))

GetAnswerKey ==
    \E test_id \in TestIds :
        Serve("get_answer_key", test_id, <<>>, get_answer_key(tests, test_id, now))

\* time passes
Tick ==
    /\ now < MaxNow
    /\ now' = now + 1
    /\ UNCHANGED <<tests, last, questionVars, limiterVars, topics, calls>>

NextRelease ==
    \/ GetTestWithSolutions
    \/ GetAnswerKey
    \/ Tick

SpecRelease == InitRelease /\ [][NextRelease]_vars

-----------------------------------------------------------------------------
(* The question repository: documents of schema version 2                   *)
(* (app/services/question_service.py over app/db/questions_repo.py).        *)
(*                                                                          *)
(* A document is a Python dict, modelled as a record; a nested dict is a    *)
(* nested record.  tags, language, meta, taxonomy.target_exam_ids, the      *)
(* solution's steps and references and usage.visibility carry no rule and   *)
(* are left out.  A handler's outcome is [status, detail, doc, ret]: doc is *)
(* the Optional document the collection holds under the id when it ends.    *)

SCHEMA_VERSION == 2

\* not x, for an Optional string and for an Optional list
FalsyStr(o) == IsNone(o) \/ Val(o) = ""
FalsyList(o) == IsNone(o) \/ Val(o) = <<>>

OptionDoc(id, text) == [id |-> id, text |-> text]
AnswerKey(type, option_id, option_ids, value) ==
    [type |-> type, option_id |-> option_id, option_ids |-> option_ids, value |-> value]

OptIds(options) == {options[i].id : i \in DOMAIN options}

\* QuestionDocBase.validate_type_specific: the message of the ValueError it
\* raises, "" when it returns.  answer_key is Optional (QuestionDocResponse).
validate_type_specific(qtype, options, answer_key) ==
    IF IsNone(answer_key) THEN ""
    ELSE LET key == Val(answer_key)
             opt_ids == OptIds(options)
             choice ==
                 IF qtype \in {"single_choice", "multi_choice", "true_false"}
                 THEN IF options = <<>> /\ qtype # "true_false"
                      THEN "options are required for choice questions"
                      ELSE IF key.type = "single"
                      THEN IF FalsyStr(key.option_id)
                           THEN "answer_key.option_id is required for single answer"
                           ELSE IF opt_ids # {} /\ Val(key.option_id) \notin opt_ids
                           THEN "answer_key.option_id must exist in options"
                           ELSE ""
                      ELSE IF key.type = "multi"
                      THEN IF FalsyList(key.option_ids)
                           THEN "answer_key.option_ids is required for multi answer"
                           ELSE IF \E oid \in Range(Val(key.option_ids)) : oid \notin opt_ids
                           THEN "answer_key.option_ids missing in options"
                           ELSE ""
                      ELSE "choice questions must use answer_key.type=single|multi"
                 ELSE ""
             valued ==
                 IF qtype \in {"integer", "short_text"}
                 THEN IF options # <<>> THEN "options must be empty for value questions"
                      ELSE IF key.type # "value" THEN "value questions require answer_key.type=value"
                      ELSE IF FalsyStr(key.value) THEN "answer_key.value is required for value questions"
                      ELSE ""
                 ELSE ""
         IN IF choice # "" THEN choice ELSE valued

\* The field constraints of QuestionDocBase and OptionDoc (min_length=1,
\* 1 <= difficulty <= 5) followed by the model validator: "" when the
\* payload validates.
QuestionDocBase(text, qtype, options, answer_key, difficulty) ==
    IF text = "" THEN "String should have at least 1 character"
    ELSE IF \E i \in DOMAIN options : options[i].id = "" \/ options[i].text = ""
    THEN "String should have at least 1 character"
    ELSE IF difficulty < 1 THEN "Input should be greater than or equal to 1"
    ELSE IF difficulty > 5 THEN "Input should be less than or equal to 5"
    ELSE validate_type_specific(qtype, options, answer_key)

\* _validate_answer_key: the HTTPException it raises, NoExc when it returns
_validate_answer_key(question_type, answer_key, options) ==
    LET opt_ids == OptIds(options)
        single ==
            IF question_type \in {"single_choice", "true_false"}
            THEN IF question_type = "single_choice" /\ options = <<>>
                 THEN HTTPException(400, "options are required for single_choice")
                 ELSE IF answer_key.type # "single"
                 THEN HTTPException(400, "single_choice requires answer_key.type=single")
                 ELSE IF FalsyStr(answer_key.option_id)
                 THEN HTTPException(400, "answer_key.option_id is required")
                 ELSE IF opt_ids # {} /\ Val(answer_key.option_id) \notin opt_ids
                 THEN HTTPException(400, "answer_key.option_id must match an option id")
                 ELSE NoExc
            ELSE NoExc
        multi ==
            IF question_type = "multi_choice"
            THEN IF options = <<>>
                 THEN HTTPException(400, "options are required for multi_choice")
                 ELSE IF answer_key.type # "multi"
                 THEN HTTPException(400, "multi_choice requires answer_key.type=multi")
                 ELSE IF FalsyList(answer_key.option_ids)
                 THEN HTTPException(400, "answer_key.option_ids is required")
                 ELSE IF \E oid \in Range(Val(answer_key.option_ids)) : oid \notin opt_ids
                 THEN HTTPException(400, "answer_key.option_ids missing in options")
                 ELSE NoExc
            ELSE NoExc
        valued ==
            IF question_type \in {"integer", "short_text"}
            THEN IF answer_key.type # "value"
                 THEN HTTPException(400, "value questions require answer_key.type=value")
                 ELSE IF FalsyStr(answer_key.value)
                 THEN HTTPException(400, "answer_key.value is required")
                 ELSE IF options # <<>>
                 THEN HTTPException(400, "options must be empty for value questions")
                 ELSE NoExc
            ELSE NoExc
    IN IF Raised(single) THEN single ELSE IF Raised(multi) THEN multi ELSE valued

\* the mutant of _validate_taxonomy_for_published: only an absent subject_id
\* is refused
validate_taxonomy_subject_present(taxonomy, usage_status) ==
    IF usage_status = "published" /\ IsNone(taxonomy.subject_id)
    THEN HTTPException(400, "subject_id is required for published questions")
    ELSE NoExc

\* _validate_taxonomy_for_published
_validate_taxonomy_for_published(taxonomy, usage_status) ==
    IF usage_status = "published" /\ FalsyStr(taxonomy.subject_id)
    THEN HTTPException(400, "subject_id is required for published questions")
    ELSE NoExc

\* _normalize_options: the HTTPException of a repeated option id
_normalize_options(options) ==
    IF \E i, j \in DOMAIN options : i < j /\ options[i].id = options[j].id
    THEN HTTPException(400, "option ids must be unique")
    ELSE NoExc

\* _build_search_blob, before the parts are joined and lower-cased
_build_search_blob(payload) ==
    <<payload.text>>
    \o [i \in DOMAIN payload.options |-> payload.options[i].text]
    \o <<IF FalsyStr(payload.taxonomy.subject_id) THEN "" ELSE Val(payload.taxonomy.subject_id)>>
    \o payload.taxonomy.topic_ids

\* {**a, **b}
DictMerge(a, b) == [k \in DOMAIN a \cup DOMAIN b |-> IF k \in DOMAIN b THEN b[k] ELSE a[k]]

\* The keys whose value model_dump makes a dict; solution alone may be None.
NestedKeys == {"answer_key", "solution", "taxonomy", "usage"}

\* _merge_nested: a nested dict of the patch is merged one level deep into
\* the dict the document holds, any other value replaces the stored one.
_merge_nested(existing, patch) ==
    [key \in DOMAIN existing \cup DOMAIN patch |->
        IF key \notin DOMAIN patch THEN existing[key]
        ELSE IF key \in NestedKeys /\ key \in DOMAIN existing
        THEN IF key = "solution"
             THEN IF IsNone(existing[key]) THEN Some(patch[key])
                  ELSE Some(DictMerge(Val(existing[key]), patch[key]))
             ELSE DictMerge(existing[key], patch[key])
        ELSE IF key = "solution" THEN Some(patch[key]) ELSE patch[key]]

\* random.random() in the generator state s, in quarters, and the state after
\* it: the generator is deterministic in its state.
RandomModulus == 4
random_next(s) == (5 * s + 3) % RandomModulus
random_random(s) == s

\* repo.find_by_id without projection: an Optional document
find_by_id(repo, question_id) ==
    IF \E i \in DOMAIN repo : repo[i]._id = question_id
    THEN Some(repo[CHOOSE i \in DOMAIN repo : repo[i]._id = question_id])
    ELSE None

QReturned(doc, code, ret) == [status |-> code, detail |-> "", doc |-> doc, ret |-> ret]
QFailed(e, doc) == [status |-> e.status, detail |-> e.detail, doc |-> doc, ret |-> <<>>]

\* The fields QuestionDocResponse declares.  The views' model_config names
\* exclusions under the key "fields", which pydantic 2 does not read: every
\* view carries every declared field, None where the document has none.
ResponseFields ==
    {"text", "type", "options", "answer_key", "solution", "taxonomy", "difficulty", "usage",
     "question_id", "version", "search_blob", "created_at", "updated_at", "rand_key",
     "schema_version"}
OptionalFields == {"answer_key", "search_blob", "rand_key", "schema_version"}

\* QuestionFullView(**doc), QuestionPreviewView(**doc), QuestionPublicView(**doc):
\* the ValidationError's message ("" when none) and the instance.
QuestionDocResponse(doc) ==
    LET answer_key == IF "answer_key" \in DOMAIN doc THEN Some(doc.answer_key) ELSE None
        error == QuestionDocBase(doc.text, doc.type, doc.options, answer_key, doc.difficulty)
        view == [f \in ResponseFields |->
                    IF f = "solution" THEN (IF f \in DOMAIN doc THEN doc[f] ELSE None)
                    ELSE IF f \in OptionalFields THEN (IF f \in DOMAIN doc THEN Some(doc[f]) ELSE None)
                    ELSE doc[f]]
    IN [error |-> error, view |-> view]

\* create_question(data): data has passed QuestionDocCreate.  question_id is
\* the uuid drawn, utcnow the clock, s the generator's state.
create_question(data, question_id, utcnow, s) ==
    LET options == _normalize_options(data.options)
        key == _validate_answer_key(data.type, data.answer_key, data.options)
        pub == _validate_taxonomy_for_published(data.taxonomy, data.usage.status)
        payload == DictMerge(data,
                       [_id |-> question_id, question_id |-> question_id, version |-> 1,
                        search_blob |-> _build_search_blob(data), created_at |-> utcnow,
                        updated_at |-> utcnow, rand_key |-> random_random(s),
                        schema_version |-> SCHEMA_VERSION])
        full == QuestionDocResponse(payload)
    IN IF Raised(options) THEN QFailed(options, None)
       ELSE IF Raised(key) THEN QFailed(key, None)
       ELSE IF Raised(pub) THEN QFailed(pub, None)
       ELSE IF full.error # "" THEN QFailed(HTTPException(500, full.error), Some(payload))
       ELSE QReturned(Some(payload), 201, full.view)

\* POST /questions: the body is validated into QuestionDocCreate first
create_question_endpoint(body, question_id, utcnow, s) ==
    LET error == QuestionDocBase(body.text, body.type, body.options, Some(body.answer_key),
                                 body.difficulty)
    IN IF error # "" THEN QFailed(HTTPException(422, error), None)
       ELSE create_question(body, question_id, utcnow, s)

SearchFields == {"text", "options", "tags", "taxonomy"}

\* update_question(question_id, patch): update_data is
\* patch.model_dump(exclude_unset=True, exclude_none=True), the fields the
\* client sent.  The document is written before the view is built.
update_question(repo, question_id, update_data, utcnow) ==
    LET found == find_by_id(repo, question_id)
        existing == Val(found)
        merged == _merge_nested(existing, update_data)
        options == _normalize_options(merged.options)
        key == _validate_answer_key(merged.type, merged.answer_key, merged.options)
        pub == _validate_taxonomy_for_published(merged.taxonomy, merged.usage.status)
        versioned == DictMerge(merged, [updated_at |-> utcnow, version |-> existing.version + 1])
        written == IF DOMAIN update_data \cap SearchFields # {}
                   THEN DictMerge(versioned, [search_blob |-> _build_search_blob(versioned)])
                   ELSE versioned
        full == QuestionDocResponse(written)
    IN IF IsNone(found) THEN QFailed(HTTPException(404, "Question not found"), None)
       ELSE IF Raised(options) THEN QFailed(options, found)
       ELSE IF Raised(key) THEN QFailed(key, found)
       ELSE IF Raised(pub) THEN QFailed(pub, found)
       ELSE IF full.error # "" THEN QFailed(HTTPException(500, full.error), Some(written))
       ELSE QReturned(Some(written), 200, full.view)

\* repo.find_by_id with a projection of excluded fields
find_by_id_projected(repo, question_id, excluded) ==
    LET found == find_by_id(repo, question_id)
    IN IF IsNone(found) THEN None
       ELSE Some([k \in DOMAIN Val(found) \ excluded |-> Val(found)[k]])

FULL_PROJECTION == {"search_blob", "rand_key"}

\* get_question: the three views differ in class only
get_question(repo, question_id, include_solution, include_answer_key) ==
    LET projection == FULL_PROJECTION
                      \cup (IF include_solution THEN {} ELSE {"solution"})
                      \cup (IF include_answer_key THEN {} ELSE {"answer_key"})
        doc == find_by_id_projected(repo, question_id, projection)
        view == QuestionDocResponse(Val(doc))
    IN IF IsNone(doc) THEN QFailed(HTTPException(404, "Question not found"), None)
       ELSE IF view.error # "" THEN QFailed(HTTPException(500, view.error), find_by_id(repo, question_id))
       ELSE QReturned(find_by_id(repo, question_id), 200, view.view)


\* Bounds of the question repository's state machine
MaxQuestions == 1
MaxVersion == 3

QuestionTypes == {"single_choice", "multi_choice", "integer", "short_text", "true_false"}

OptionLists ==
    {<<>>, <<OptionDoc("A", "4")>>, <<OptionDoc("A", "4"), OptionDoc("B", "5")>>,
     <<OptionDoc("A", "4"), OptionDoc("A", "5")>>}

AnswerKeys ==
    {AnswerKey("single", Some("A"), None, None), AnswerKey("single", Some("C"), None, None),
     AnswerKey("single", None, None, None),
     AnswerKey("multi", None, Some(<<"A", "B">>), None), AnswerKey("multi", None, Some(<<"A", "C">>), None),
     AnswerKey("value", None, None, Some("42")), AnswerKey("value", None, None, Some(""))}

TaxonomyDoc(subject_id, topic_ids) == [subject_id |-> subject_id, topic_ids |-> topic_ids]
UsageDoc(status, is_active) == [status |-> status, is_active |-> is_active]
SolutionDoc(explanation) == [explanation |-> explanation]

QuestionBody(text, type, options, answer_key, solution, subject_id, status) ==
    [text |-> text, type |-> type, options |-> options, answer_key |-> answer_key,
     solution |-> solution, taxonomy |-> TaxonomyDoc(subject_id, <<>>), difficulty |-> 2,
     usage |-> UsageDoc(status, TRUE)]

\* The bodies of POST /questions: every type with every options list and
\* answer key, published under a subject; one choice question under every
\* subject_id and status, with and without a solution; one without a text.
CreateBodies ==
    {QuestionBody("What is 2+2?", t, o, k, None, Some("math"), "published") :
        t \in QuestionTypes, o \in OptionLists, k \in AnswerKeys}
    \cup {QuestionBody("What is 2+2?", "single_choice", <<OptionDoc("A", "4"), OptionDoc("B", "5")>>,
                       AnswerKey("single", Some("A"), None, None), sol, sub, st) :
            sol \in {None, Some(SolutionDoc("2+2=4"))}, sub \in {None, Some(""), Some("math")},
            st \in {"draft", "published"}}
    \cup {QuestionBody("", "integer", <<>>, AnswerKey("value", None, None, Some("42")), None,
                       Some("math"), "draft")}

\* What PATCH /questions/{question_id} leaves of a body once unset and None
\* fields are dropped.  An answer_key always names its type.
UpdatePatches ==
    {<<>>, [text |-> ""]}
    \cup {[usage |-> [status |-> st]] : st \in {"draft", "published"}}
    \cup {[taxonomy |-> [subject_id |-> Some(sub)]] : sub \in {"", "math"}}
    \cup {[taxonomy |-> [topic_ids |-> <<"algebra">>]]}
    \cup {[usage |-> [status |-> "published"], taxonomy |-> [subject_id |-> Some("")]]}
    \cup {[options |-> o] : o \in OptionLists}
    \cup {[type |-> t] : t \in QuestionTypes}
    \cup {[answer_key |-> k] :
            k \in {[type |-> "single", option_id |-> Some("B")], [type |-> "single", option_id |-> Some("Z")],
                   [type |-> "multi", option_ids |-> Some(<<"A", "B">>)],
                   [type |-> "value", value |-> Some("42")]}}
    \cup {[type |-> "integer", options |-> <<>>, answer_key |-> [type |-> "value", value |-> Some("42")]],
          [type |-> "true_false", options |-> <<>>]}
    \cup {[solution |-> SolutionDoc("3+1=4")]}

\* f"q_{uuid.uuid4()}": the n-th identifier drawn; no two draws are equal
question_uuid(n) == CASE n = 1 -> "q_1" [] n = 2 -> "q_2" [] n = 3 -> "q_3" [] OTHER -> "q_4"

\* the question ids a client asks for: the stored ones and one that is not
AskedIds == {storage[i]._id : i \in DOMAIN storage} \cup {"q_0"}

\* the collection after a handler that leaves r.doc under question_id
QStored(repo, question_id, r) ==
    IF IsNone(r.doc) THEN repo
    ELSE IF \E i \in DOMAIN repo : repo[i]._id = question_id
    THEN [i \in DOMAIN repo |-> IF repo[i]._id = question_id THEN Val(r.doc) ELSE repo[i]]
    ELSE Append(repo, Val(r.doc))

QServe(op, question_id, req, r) ==
    /\ storage' = QStored(storage, question_id, r)
    /\ last' = IF r.status \in {200, 201} THEN [op |-> op, req |-> req] ELSE last
    /\ UNCHANGED <<tests, now, limiterVars, topics, calls>>

\* The process starts with a generator seeded from the operating system.
InitQuestions ==
    /\ tests = <<>>
    /\ last = [op |-> "init", req |-> <<>>]
    /\ now = 0
    /\ storage = <<>>
    /\ rng \in 0..(RandomModulus - 1)
    /\ NoRequests
    /\ NoTopics
    /\ NoCalls

\* POST /questions; random.random() is reached once the validations passed
CreateQuestion ==
    \E body \in CreateBodies :
        LET question_id == question_uuid(Len(storage) + 1)
            r == create_question_endpoint(body, question_id, now, rng)
        IN /\ Len(storage) < MaxQuestions
           /\ QServe("create_question", question_id, [question_id |-> question_id], r)
           /\ rng' = IF r.status \in {400, 422} THEN rng ELSE random_next(rng)

\* PATCH /questions/{question_id}
UpdateQuestion ==
    \E question_id \in AskedIds, patch \in UpdatePatches :
        LET found == find_by_id(storage, question_id)
        IN /\ IF IsNone(found) THEN TRUE ELSE Val(found).version < MaxVersion
           /\ QServe("update_question", question_id, [question_id |-> question_id, fields |-> DOMAIN patch],
                     update_question(storage, question_id, patch, now))
           /\ UNCHANGED rng

\* GET /questions/{question_id}
GetQuestion ==
    \E question_id \in AskedIds, include_solution \in BOOLEAN, include_answer_key \in BOOLEAN :
        /\ QServe("get_question", question_id, [question_id |-> question_id],
                  get_question(storage, question_id, include_solution, include_answer_key))
        /\ UNCHANGED rng

NextQuestions ==
    \/ CreateQuestion
    \/ UpdateQuestion
    \/ GetQuestion
    \/ Tick

SpecQuestions == InitQuestions /\ [][NextQuestions]_vars

-----------------------------------------------------------------------------
(* Listing and sampling the question repository                             *)
(* (discover_questions, sample_questions; QuestionRepo over Mongo and       *)
(* InMemoryQuestionRepo).  Of the filters subject_id, status_value and      *)
(* is_active are modelled; text search is left out.                         *)

\* _build_filters: the Mongo filter document, a dict keyed by field path.
\* "$or" stands for the clause "schema_version is 2 or absent".
_build_filters(subject_id, status_value, is_active, include_legacy) ==
    LET base == IF include_legacy THEN [k \in {"$or"} |-> SCHEMA_VERSION]
                ELSE [k \in {"schema_version"} |-> SCHEMA_VERSION]
        subject == IF FalsyStr(subject_id) THEN <<>>
                   ELSE [k \in {"taxonomy.subject_id"} |-> Val(subject_id)]
        status == IF FalsyStr(status_value) THEN <<>>
                  ELSE [k \in {"usage.status"} |-> Val(status_value)]
        active == IF IsNone(is_active) THEN <<>>
                  ELSE [k \in {"usage.is_active"} |-> Val(is_active)]
    IN DictMerge(DictMerge(DictMerge(base, subject), status), active)

\* InMemoryQuestionRepo._get_value: None when the path is not in the document
_get_value(doc, dotted_key) ==
    CASE dotted_key = "taxonomy.subject_id" -> doc.taxonomy.subject_id
      [] dotted_key = "usage.status" -> Some(doc.usage.status)
      [] dotted_key = "usage.is_active" -> Some(doc.usage.is_active)
      [] dotted_key = "schema_version" -> Some(doc.schema_version)
      [] OTHER -> None

\* InMemoryQuestionRepo._match without search: every key of the filter is
\* read as a field path, "$or" included
_match(doc, filters) ==
    \A key \in DOMAIN filters :
        LET value == _get_value(doc, key)
        IN IF IsNone(value) THEN FALSE ELSE Val(value) = filters[key]

\* how Mongo matches a document against the filter
mongo_match(doc, filters) ==
    \A key \in DOMAIN filters :
        IF key = "$or" THEN doc.schema_version = filters[key]
        ELSE LET value == _get_value(doc, key)
             IN IF IsNone(value) THEN FALSE ELSE Val(value) = filters[key]

\* [doc for doc in docs if matches]: the indices of the matching documents
RECURSIVE Matching(_, _, _)
Matching(repo_kind, docs, filters) ==
    IF docs = <<>> THEN <<>>
    ELSE LET doc == docs[1]
             hit == IF repo_kind = "memory" THEN _match(doc, filters) ELSE mongo_match(doc, filters)
         IN (IF hit THEN <<doc>> ELSE <<>>) \o Matching(repo_kind, Tail(docs), filters)

\* the rank of a question id in the order of strings
QIdRank(question_id) ==
    CASE question_id = "q_1" -> 1 [] question_id = "q_2" -> 2 [] question_id = "q_3" -> 3 [] OTHER -> 4

\* what a document is sorted by under a field
SortKey(doc, field) == IF field = "_id" THEN QIdRank(doc._id) ELSE doc[field]

\* docs.sort(key=lambda x: x.get(field), reverse=reverse): stable both ways
RECURSIVE StableSort(_, _, _)
StableSort(docs, field, reverse) ==
    IF docs = <<>> THEN <<>>
    ELSE LET keys == {SortKey(docs[j], field) : j \in DOMAIN docs}
             m == IF reverse THEN Max(keys) ELSE Min(keys)
             i == Min({j \in DOMAIN docs : SortKey(docs[j], field) = m})
         IN <<docs[i]>> \o StableSort(SubSeq(docs, 1, i - 1) \o SubSeq(docs, i + 1, Len(docs)), field, reverse)

\* docs[skip:] and docs[:limit] of a Python list, negative bounds included
Slice(docs, from, to) ==
    LET n == Len(docs)
        lo == IF from < 0 THEN Max({0, n + from}) ELSE Min({from, n})
        hi == IF to < 0 THEN Max({0, n + to}) ELSE Min({to, n})
    IN SubSeq(docs, lo + 1, hi)

\* cursor.sort(sort).skip(skip).limit(limit) as QuestionRepo.find_many
\* builds it: skip and limit are applied only when they are truthy, and a
\* cursor without limit returns every document.
mongo_find_many(repo, filters, sort_by, direction, skip, limit) ==
    LET docs == Matching("mongo", repo, filters)
        sorted == StableSort(StableSort(docs, "_id", FALSE), sort_by, direction = -1)
        skipped == IF skip # 0 THEN Slice(sorted, Max({0, skip}), Len(sorted)) ELSE sorted
    IN IF limit # 0 THEN Slice(skipped, 0, Max({0, limit})) ELSE skipped

\* InMemoryQuestionRepo.find_many without search
memory_find_many(repo, filters, sort_by, direction, skip, limit) ==
    LET docs == Matching("memory", repo, filters)
        sorted == StableSort(StableSort(docs, "_id", FALSE), sort_by, direction = -1)
        skipped == IF skip # 0 THEN Slice(sorted, skip, Len(sorted)) ELSE sorted
    IN IF limit # 0 THEN Slice(skipped, 0, limit) ELSE skipped

PUBLIC_PROJECTION == {"search_blob", "rand_key"}

\* {k: v for k, v in doc.items() if k not in projection}
Projected(doc, projection) == [k \in DOMAIN doc \ projection |-> doc[k]]

\* items.append(QuestionPublicView(**doc)) for every document that validates
RECURSIVE PublicViews(_)
PublicViews(docs) ==
    IF docs = <<>> THEN <<>>
    ELSE LET v == QuestionDocResponse(Projected(docs[1], PUBLIC_PROJECTION))
         IN (IF v.error = "" THEN <<v.view>> ELSE <<>>) \o PublicViews(Tail(docs))

DiscoverCap == 200
AllowedSorts == {"created_at", "difficulty", "updated_at"}

\* discover_questions without search: PaginatedQuestions(items, total, skip, limit)
discover_questions(repo_kind, repo, req) ==
    LET sort_by == IF req.sort_by \in AllowedSorts THEN req.sort_by ELSE "created_at"
        sort_order == IF req.sort_order \in {"asc", "desc"} THEN req.sort_order ELSE "desc"
        skip == Max({0, req.skip})
        limit == Max({0, Min({req.limit, DiscoverCap})})
        filters == _build_filters(req.subject_id, req.status_value, req.is_active, TRUE)
        direction == IF sort_order = "desc" THEN -1 ELSE 1
        docs == IF repo_kind = "memory"
                THEN memory_find_many(repo, filters, sort_by, direction, skip, limit)
                ELSE mongo_find_many(repo, filters, sort_by, direction, skip, limit)
        count == Len(Matching(repo_kind, repo, filters))
        items == PublicViews(docs)
    IN [items |-> items, total |-> IF count # 0 THEN count ELSE Len(items),
        skip |-> skip, limit |-> limit]

\* _normalize_seed: md5(seed) / 2**128, in thousandths
_normalize_seed(seed) ==
    CASE seed = "seed123" -> 622 [] seed = "a" -> 49 [] OTHER -> 573

\* the condition {"rand_key": {"$gte": seed_value}} on a rand_key in
\* RandomModulus-ths
AtOrAfterSeed(doc, seed_value) == doc.rand_key * 1000 >= seed_value * RandomModulus

\* the documents of docs Mongo places at or after (wanted) or before the seed
RECURSIVE SeedSide(_, _, _)
SeedSide(docs, seed_value, wanted) ==
    IF docs = <<>> THEN <<>>
    ELSE (IF AtOrAfterSeed(docs[1], seed_value) = wanted THEN <<docs[1]>> ELSE <<>>)
         \o SeedSide(Tail(docs), seed_value, wanted)

\* variant: the documents at or after the seed only, without the wrap-around
mongo_sample_without_wrap(repo, filters, limit, seed, pick) ==
    LET docs == Matching("mongo", repo, filters)
        seed_value == _normalize_seed(Val(seed))
        first == Slice(StableSort(SeedSide(docs, seed_value, TRUE), "rand_key", FALSE), 0, limit)
    IN IF ~FalsyStr(seed) THEN first
       ELSE [i \in DOMAIN pick |-> docs[pick[i]]]

\* QuestionRepo.sample.  With a seed: the documents from the seed's place on
\* the rand_key circle onward, wrapping around.  Without one Mongo's $sample
\* returns any documents it likes: pick, a list of distinct places.
mongo_sample(repo, filters, limit, seed, pick) ==
    LET docs == Matching("mongo", repo, filters)
        seed_value == _normalize_seed(Val(seed))
        first == Slice(StableSort(SeedSide(docs, seed_value, TRUE), "rand_key", FALSE), 0, limit)
        remaining == limit - Len(first)
        wrap == Slice(StableSort(SeedSide(docs, seed_value, FALSE), "rand_key", FALSE), 0, remaining)
    IN IF ~FalsyStr(seed)
       THEN IF remaining <= 0 THEN first ELSE first \o wrap
       ELSE [i \in DOMAIN pick |-> docs[pick[i]]]

\* what $sample of size over n documents may return: every list of
\* min(size, n) distinct places
SamplePicks(n, size) ==
    {p \in [1..Min({n, Max({0, size})}) -> 1..n] : \A i, j \in DOMAIN p : i # j => p[i] # p[j]}

\* random.seed(seed): the state a seed puts the generator in
random_seed(seed) ==
    (CASE seed = "seed123" -> 1 [] seed = "a" -> 2 [] OTHER -> 3) % RandomModulus

\* random.shuffle(x) from state s: for i in reversed(range(1, len(x))):
\* j = randbelow(i + 1); x[i], x[j] = x[j], x[i].  Yields the list and the
\* state the generator is left in.
RECURSIVE random_shuffle(_, _, _)
random_shuffle(x, i, s) ==
    IF i < 2 THEN [list |-> x, state |-> s]
    ELSE LET j == 1 + (s % i)
             swapped == [k \in DOMAIN x |-> IF k = i THEN x[j] ELSE IF k = j THEN x[i] ELSE x[k]]
         IN random_shuffle(swapped, i - 1, random_next(s))

\* the mutant of InMemoryQuestionRepo.sample: the generator is never seeded
memory_sample_unseeded(repo, filters, limit, seed, s) ==
    LET docs == Matching("memory", repo, filters)
        shuffled == random_shuffle(docs, Len(docs), s)
    IN [docs |-> Slice(shuffled.list, 0, limit), state |-> shuffled.state]

\* InMemoryQuestionRepo.sample from generator state s
memory_sample(repo, filters, limit, seed, s) ==
    LET docs == Matching("memory", repo, filters)
        seeded == IF ~FalsyStr(seed) THEN random_seed(Val(seed)) ELSE s
        shuffled == random_shuffle(docs, Len(docs), seeded)
    IN [docs |-> Slice(shuffled.list, 0, limit), state |-> shuffled.state]

SampleCap == 50

\* sample_questions: the views returned and the state the generator is left in
sample_questions(repo_kind, repo, req, s, pick) ==
    LET limit == Max({1, Min({req.limit, SampleCap})})
        filters == _build_filters(req.subject_id, req.status_value, req.is_active, TRUE)
        sampled == IF repo_kind = "memory" THEN memory_sample(repo, filters, limit, req.seed, s)
                   ELSE [docs |-> mongo_sample(repo, filters, limit, req.seed, pick), state |-> s]
    IN [items |-> PublicViews(sampled.docs), state |-> sampled.state]

\* the number of documents filters match in the Mongo collection
MatchCount(repo, req) ==
    Len(Matching("mongo", repo, _build_filters(req.subject_id, req.status_value, req.is_active, TRUE)))

\* Bound of the collections listed and sampled
MaxDocs == 2

\* The document create_question stores for the n-th question of a catalogue
CatalogDoc(n, subject_id, status, rand_key) ==
    Val(create_question(
            QuestionBody("What is 2+2?", "single_choice", <<OptionDoc("A", "4"), OptionDoc("B", "5")>>,
                         AnswerKey("single", Some("A"), None, None), None, Some(subject_id), status),
            question_uuid(n), n - 1, rand_key).doc)

\* Collections of up to MaxDocs documents created one after the other, each
\* published under one of two subjects or a draft, with rand_keys that
\* differ (random.random() draws 53-bit floats).
Catalogs ==
    UNION {
        {[n \in 1..len |-> CatalogDoc(n, kind[n][1], kind[n][2], key[n])] :
            kind \in [1..len -> {<<"math", "published">>, <<"physics", "published">>, <<"math", "draft">>}],
            key \in {k \in [1..len -> 0..(RandomModulus - 1)] : \A i, j \in 1..len : i # j => k[i] # k[j]}} :
        len \in 0..MaxDocs}

RepoKinds == {"mongo", "memory"}
Seeds == {None, Some(""), Some("seed123"), Some("a")}

SampleRequests ==
    [subject_id : {None, Some("math")}, status_value : {Some("published")}, is_active : {Some(TRUE)},
     limit : {0, 1, MaxDocs}, seed : Seeds]

DiscoverRequests ==
    [subject_id : {None, Some("math")}, status_value : {Some("published")}, is_active : {Some(TRUE)},
     skip : {-1, 0, 1}, limit : {-1, 0, 1, DiscoverCap + 1},
     sort_by : {"created_at"}, sort_order : {"asc", "desc"}]

InitCatalog ==
    /\ tests = <<>>
    /\ last = [op |-> "init", req |-> <<>>]
    /\ now = 0
    /\ storage \in Catalogs
    /\ rng \in 0..(RandomModulus - 1)
    /\ NoRequests
    /\ NoTopics
    /\ NoCalls

\* GET /questions/sample served by either repository
SampleQuestions ==
    \E repo_kind \in RepoKinds, req \in SampleRequests :
        \E pick \in IF repo_kind = "mongo" /\ FalsyStr(req.seed)
                     THEN SamplePicks(MatchCount(storage, req), Max({1, Min({req.limit, SampleCap})}))
                     ELSE {<<>>} :
            /\ rng' = sample_questions(repo_kind, storage, req, rng, pick).state
            /\ last' = [op |-> "sample_questions", req |-> [repo_kind |-> repo_kind]]
            /\ UNCHANGED <<tests, now, storage, limiterVars, topics, calls>>

\* repo.sample called directly, with the filter of version 2 documents
SampleRepo ==
    \E repo_kind \in RepoKinds, limit \in {1, MaxDocs}, seed \in Seeds :
        LET filters == _build_filters(None, None, None, FALSE)
        IN /\ rng' = IF repo_kind = "memory" THEN memory_sample(storage, filters, limit, seed, rng).state
                     ELSE rng
           /\ last' = [op |-> "sample", req |-> [repo_kind |-> repo_kind, seed |-> seed]]
           /\ UNCHANGED <<tests, now, storage, limiterVars, topics, calls>>

\* GET /list/questions/discover served by either repository
DiscoverQuestions ==
    \E repo_kind \in RepoKinds, req \in DiscoverRequests :
        /\ last' = [op |-> "discover_questions", req |-> [repo_kind |-> repo_kind]]
        /\ UNCHANGED <<tests, now, storage, rng, limiterVars, topics, calls>>

NextCatalog ==
    \/ SampleQuestions
    \/ SampleRepo
    \/ DiscoverQuestions

SpecCatalog == InitCatalog /\ [][NextCatalog]_vars

-----------------------------------------------------------------------------
(* The rate limiter (app/security/rate_limit.py).  Every request runs       *)
(* RateLimiter.__call__ in a thread of its own: it reads the clock, then    *)
(* takes the lock and runs the guarded block, which no other thread can     *)
(* interleave with.  admitted is a history the program does not keep.       *)

\* RateLimiter(limit, window_seconds) and the requests racing for it
Limit == 2
Window == 2
MaxThreads == 4
MaxTime == 3

Threads == 1..MaxThreads
ApiKey == "k1"

\* self._requests.get(hashed_api_key, [])
requests_get(requests, hashed_api_key) ==
    IF hashed_api_key \in DOMAIN requests THEN requests[hashed_api_key] ELSE <<>>

\* [ts for ts in timestamps if ts >= window_start]
RECURSIVE InWindow(_, _)
InWindow(timestamps, window_start) ==
    IF timestamps = <<>> THEN <<>>
    ELSE (IF timestamps[1] >= window_start THEN <<timestamps[1]>> ELSE <<>>)
         \o InWindow(Tail(timestamps), window_start)

\* the block under self._lock for a request that read the clock at time_read:
\* the exception raised and what _requests holds afterwards
guarded_block(requests, hashed_api_key, time_read) ==
    LET window_start == time_read - Window
        timestamps == InWindow(requests_get(requests, hashed_api_key), window_start)
    IN IF Len(timestamps) >= Limit
       THEN [exc |-> HTTPException(429, "Rate limit exceeded"), requests |-> requests]
       ELSE [exc |-> NoExc,
             requests |-> [k \in DOMAIN requests \cup {hashed_api_key} |->
                              IF k = hashed_api_key THEN Append(timestamps, time_read) ELSE requests[k]]]

InitLimiter ==
    /\ tests = <<>>
    /\ last = [op |-> "init", req |-> <<>>]
    /\ now = 0
    /\ NoQuestionDocs
    /\ _requests = <<>>
    /\ pc = [t \in Threads |-> [at |-> "call"]]
    /\ admitted = <<>>
    /\ NoTopics
    /\ NoCalls

\* now = time.time(); window_start = now - self.window
ReadClock(t) ==
    /\ pc[t].at = "call"
    /\ pc' = [pc EXCEPT ![t] = [at |-> "lock", now |-> now]]
    /\ UNCHANGED <<tests, last, now, questionVars, _requests, admitted, topics, calls>>

\* with self._lock: ... ; the request is admitted or answered 429
EnterLock(t) ==
    /\ pc[t].at = "lock"
    /\ LET r == guarded_block(_requests, ApiKey, pc[t].now)
       IN /\ _requests' = r.requests
          /\ admitted' = IF Raised(r.exc) THEN admitted ELSE Append(admitted, pc[t].now)
          /\ pc' = [pc EXCEPT ![t] = [at |-> "done", status |-> r.exc.status]]
    /\ UNCHANGED <<tests, last, now, questionVars, topics, calls>>

\* the clock time.time() reads moves on
Elapse ==
    /\ now < MaxTime
    /\ now' = now + 1
    /\ UNCHANGED <<tests, last, questionVars, limiterVars, topics, calls>>

NextLimiter ==
    \/ \E t \in Threads : ReadClock(t)
    \/ \E t \in Threads : EnterLock(t)
    \/ Elapse

SpecLimiter == InitLimiter /\ [][NextLimiter]_vars

-----------------------------------------------------------------------------
(* The status of a test (TestStatus), set by create_test and update_test *)

TestStatus == {"draft", "published", "archived"}

\* TestCreate bodies with each status: a pattern of one phy and one chem
\* section, no reference or q1 as the only one
StatusCreateRequests ==
    {[code |-> "T1", slug |-> "t-1", series_id |-> None,
      pattern |-> [total_questions |-> 2,
                   sections |-> <<Section("s1", "phy", 1, PhyScheme),
                                  Section("s2", "chem", 1, ChemScheme)>>],
      status |-> st, questions |-> qs] :
        st \in TestStatus,
        qs \in SeqsUpTo({r \in InitRefChoices : r.seq = 1}, 1)}

\* TestUpdate payloads: no field, or the status
StatusUpdateRequests == {<<>>} \cup {[status |-> st] : st \in TestStatus}

CreateTestWithStatus ==
    \E data \in StatusCreateRequests, test_id \in TestIds :
        /\ test_id \notin DOMAIN tests
        /\ Serve("create_test", test_id, data, create_test(tests, test_id, data))

UpdateTestStatus ==
    \E test_id \in TestIds, payload \in StatusUpdateRequests :
        Serve("update_test", test_id, payload, update_test(tests, test_id, payload))

NextStatus ==
    \/ CreateTestWithStatus
    \/ UpdateTestStatus
    \/ DeleteTest
    \/ AddQuestions
    \/ RemoveQuestion

SpecStatus == Init /\ [][NextStatus]_vars

-----------------------------------------------------------------------------
(* Topics and their relationship graph (app/services/master_service.py).    *)
(* A topic document is [id, subject_id, slug, related_topic_ids,            *)
(* prerequisite_topic_ids]; name, description, weights, tags and            *)
(* timestamps carry no rule and are left out.  db is the topics collection, *)
(* and a handler's outcome is [status, detail, topics, ret]: topics is the  *)
(* collection when the handler ends.                                        *)

TReturned(db, ret) == [status |-> 200, detail |-> "", topics |-> db, ret |-> ret]
TFailed(e, db) == [status |-> e.status, detail |-> e.detail, topics |-> db, ret |-> <<>>]

\* Database.get_topic
get_topic(db, topic_id) == IF topic_id \in DOMAIN db THEN Some(db[topic_id]) ELSE None

\* Database.get_topic_by_slug: find_one({"subject_id": ..., "slug": ...})
get_topic_by_slug(db, subject_id, slug) ==
    LET hits == {id \in DOMAIN db : db[id].subject_id = subject_id /\ db[id].slug = slug}
    IN IF hits = {} THEN None ELSE Some(db[CHOOSE id \in hits : TRUE])

\* the for loop of _validate_topic_references from ref_ids[k] on
RECURSIVE _validate_topic_references_loop(_, _, _, _)
_validate_topic_references_loop(topic, db, ref_ids, k) ==
    IF k > Len(ref_ids) THEN NoExc
    ELSE LET ref_topic == get_topic(db, ref_ids[k])
         IN IF IsNone(ref_topic)
            THEN HTTPException(404, "Referenced topic not found")
            ELSE IF Val(ref_topic).subject_id # topic.subject_id
            THEN HTTPException(400, "Topic does not belong to subject")
            ELSE _validate_topic_references_loop(topic, db, ref_ids, k + 1)

_validate_topic_references(topic, db, ref_ids) ==
    _validate_topic_references_loop(topic, db, ref_ids, 1)

\* create_topic; topic is the TopicCreate body (id an Optional), uuid the
\* generated id used when the body names none
create_topic(db, topic, uuid) ==
    LET topic_id == IF ~IsNone(topic.id) /\ Val(topic.id) # "" THEN Val(topic.id) ELSE uuid
        created == [id |-> topic_id, subject_id |-> topic.subject_id, slug |-> topic.slug,
                    related_topic_ids |-> topic.related_topic_ids,
                    prerequisite_topic_ids |-> topic.prerequisite_topic_ids]
        e1 == _validate_topic_references(created, db, created.related_topic_ids)
        e2 == _validate_topic_references(created, db, created.prerequisite_topic_ids)
    IN IF topic.subject_id \notin SubjectStore
       THEN TFailed(HTTPException(404, "Subject not found"), db)
       ELSE IF ~IsNone(get_topic(db, topic_id))
       THEN TFailed(HTTPException(400, "Topic id already exists"), db)
       ELSE IF ~IsNone(get_topic_by_slug(db, topic.subject_id, topic.slug))
       THEN TFailed(HTTPException(400, "Topic slug already exists for this subject"), db)
       ELSE IF Raised(e1) THEN TFailed(e1, db)
       ELSE IF Raised(e2) THEN TFailed(e2, db)
       ELSE TReturned([id \in DOMAIN db \cup {topic_id} |->
                          IF id = topic_id THEN created ELSE db[id]], <<created>>)

\* update_topic; payload holds the fields the request set
\* (payload.dict(exclude_unset=True)), a list field set to null as None
update_topic(db, topic_id, payload) ==
    LET stored == get_topic(db, topic_id)
        topic == Val(stored)
        existing == get_topic_by_slug(db, topic.subject_id, payload.slug)
        copied == [f \in DOMAIN topic |-> IF f \in DOMAIN payload THEN payload[f] ELSE topic[f]]
        updated == [copied EXCEPT
                       !.related_topic_ids = IF @ = None THEN <<>> ELSE @,
                       !.prerequisite_topic_ids = IF @ = None THEN <<>> ELSE @]
        e1 == _validate_topic_references(updated, db, updated.related_topic_ids)
        e2 == _validate_topic_references(updated, db, updated.prerequisite_topic_ids)
    IN IF IsNone(stored) THEN TFailed(HTTPException(404, "Topic not found"), db)
       ELSE IF /\ "slug" \in DOMAIN payload
               /\ payload.slug # topic.slug
               /\ ~IsNone(existing)
               /\ Val(existing).id # topic.id
       THEN TFailed(HTTPException(400, "Topic slug already exists for this subject"), db)
       ELSE IF "subject_id" \in DOMAIN payload /\ payload.subject_id # topic.subject_id
       THEN TFailed(HTTPException(400, "Changing subject of a topic is not allowed"), db)
       ELSE IF Raised(e1) THEN TFailed(e1, db)
       ELSE IF Raised(e2) THEN TFailed(e2, db)
       ELSE TReturned([db EXCEPT ![topic_id] = updated], <<updated>>)

\* delete_topic
delete_topic(db, topic_id) ==
    IF IsNone(get_topic(db, topic_id)) THEN TFailed(HTTPException(404, "Topic not found"), db)
    ELSE TReturned([id \in DOMAIN db \ {topic_id} |-> db[id]], <<>>)

\* update_topic_links: a TopicUpdate with both list fields set, an omitted
\* argument as null
update_topic_links(db, topic_id, related_topic_ids, prerequisite_topic_ids) ==
    update_topic(db, topic_id, [related_topic_ids |-> related_topic_ids,
                                prerequisite_topic_ids |-> prerequisite_topic_ids])

\* ids a body can name; "t9" is never created
TopicIds == {"t1", "t2"}
TopicSlugs == {"algebra", "optics"}

\* lists of referenced topic ids: up to two ids, one of them of no topic
TopicRefLists == SeqsUpTo({"t1", "t2", "t9"}, 1) \cup {<<"t1", "t2">>}
\* prerequisite lists
TopicPrerequisiteLists == {<<>>, <<"t1">>}

\* TopicCreate bodies; "bio" is the id of no subject
TopicCreateBodies ==
    {[id |-> Some(id), subject_id |-> sub, slug |-> slug,
      related_topic_ids |-> rel, prerequisite_topic_ids |-> pre] :
        id \in TopicIds, sub \in SubjectStore \cup {"bio"}, slug \in TopicSlugs,
        rel \in TopicRefLists, pre \in TopicPrerequisiteLists}

\* TopicUpdate payloads: no field, the slug, the subject, or one list
TopicUpdatePayloads ==
    {<<>>} \cup {[slug |-> slug] : slug \in TopicSlugs}
           \cup {[subject_id |-> sub] : sub \in SubjectStore}
           \cup {[related_topic_ids |-> rel] : rel \in TopicRefLists}
           \cup {[prerequisite_topic_ids |-> pre] : pre \in TopicPrerequisiteLists}

\* A call that returns is recorded in last; the collection is as the handler left it.
TServe(op, req, r) ==
    /\ topics' = r.topics
    /\ last' = IF r.status = 200 THEN [op |-> op, req |-> req] ELSE last
    /\ UNCHANGED <<tests, now, questionVars, limiterVars, calls>>

InitTopics ==
    /\ tests = <<>>
    /\ last = [op |-> "init", req |-> <<>>]
    /\ now = 0
    /\ NoQuestionDocs
    /\ NoRequests
    /\ NoTopics
    /\ NoCalls

CreateTopic ==
    \E topic \in TopicCreateBodies :
        TServe("create_topic", [id |-> Val(topic.id)], create_topic(topics, topic, "t0"))

UpdateTopic ==
    \E topic_id \in TopicIds, payload \in TopicUpdatePayloads :
        TServe("update_topic", [id |-> topic_id, fields |-> DOMAIN payload],
               update_topic(topics, topic_id, payload))

UpdateTopicLinks ==
    \E topic_id \in TopicIds, rel \in TopicRefLists \cup {None},
       pre \in TopicPrerequisiteLists \cup {None} :
        TServe("update_topic_links", [id |-> topic_id],
               update_topic_links(topics, topic_id, rel, pre))

DeleteTopic ==
    \E topic_id \in TopicIds :
        TServe("delete_topic", [id |-> topic_id], delete_topic(topics, topic_id))

NextTopics ==
    \/ CreateTopic
    \/ UpdateTopic
    \/ UpdateTopicLinks
    \/ DeleteTopic

SpecTopics == InitTopics /\ [][NextTopics]_vars

-----------------------------------------------------------------------------
(* validate_test, on tests created with references as a client words them *)

\* ValidationResult
ValidationResult(issues) == [is_valid |-> Len(issues) = 0, issues |-> issues, warnings |-> <<>>]

\* variant: the stored subject_id of a reference is not compared with the question's
validate_test_without_subject_check(db, test_id) ==
    LET stored == _get_test(db, test_id)
        test == Val(stored)
        sections == test.pattern.sections
        seqs == [i \in DOMAIN test.questions |-> test.questions[i].seq]
        question_ids == [i \in DOMAIN test.questions |-> test.questions[i].question_id]
        found == get_questions_by_ids(question_ids)
        found_ids == {found[i].question_id : i \in DOMAIN found}
        missing == SelectSeq(question_ids, LAMBDA qid : qid \notin found_ids)
        issues ==
            (IF Len(test.questions) # test.pattern.total_questions
             THEN <<"Total questions do not match pattern.total_questions">> ELSE <<>>)
            \o [k \in 1..Cardinality({i \in DOMAIN sections :
                    SectionCount(test.questions, sections[i].section_id)
                        # sections[i].total_questions}) |-> "Section question count mismatch"]
            \o (IF Len(seqs) # Cardinality(Range(seqs))
                THEN <<"Duplicate sequence numbers found">> ELSE <<>>)
            \o (IF Raised(_ensure_sequences_contiguous(test.questions))
                THEN <<_ensure_sequences_contiguous(test.questions).detail>> ELSE <<>>)
            \o (IF missing # <<>> THEN <<"Missing question documents">> ELSE <<>>)
    IN IF IsNone(stored) THEN Failed(NotFoundTest, None)
       ELSE Answered(db, test_id, ValidationResult(issues))

\* validate_test: the issues in the order the code appends them (a section or
\* subject issue names its section or question in the code)
validate_test(db, test_id) ==
    LET stored == _get_test(db, test_id)
        test == Val(stored)
        sections == test.pattern.sections
        seqs == [i \in DOMAIN test.questions |-> test.questions[i].seq]
        question_ids == [i \in DOMAIN test.questions |-> test.questions[i].question_id]
        found == get_questions_by_ids(question_ids)
        found_ids == {found[i].question_id : i \in DOMAIN found}
        missing == SelectSeq(question_ids, LAMBDA qid : qid \notin found_ids)
        q_map == _build_question_map(question_ids)
        Mismatch(ref) == ref.question_id \in DOMAIN q_map
                            /\ q_map[ref.question_id].subject_id # ref.subject_id
        issues ==
            (IF Len(test.questions) # test.pattern.total_questions
             THEN <<"Total questions do not match pattern.total_questions">> ELSE <<>>)
            \o [k \in 1..Cardinality({i \in DOMAIN sections :
                    SectionCount(test.questions, sections[i].section_id)
                        # sections[i].total_questions}) |-> "Section question count mismatch"]
            \o (IF Len(seqs) # Cardinality(Range(seqs))
                THEN <<"Duplicate sequence numbers found">> ELSE <<>>)
            \o (IF Raised(_ensure_sequences_contiguous(test.questions))
                THEN <<_ensure_sequences_contiguous(test.questions).detail>> ELSE <<>>)
            \o (IF missing # <<>> THEN <<"Missing question documents">> ELSE <<>>)
            \o [k \in 1..Len(SelectSeq(test.questions, Mismatch)) |-> "Subject mismatch for question"]
    IN IF IsNone(stored) THEN Failed(NotFoundTest, None)
       ELSE Answered(db, test_id, ValidationResult(issues))

\* a reference as a client words it in a create_test body: any section, any
\* question id and any subject_id, marks left out
ClientRef(seq, section_id, question_id, subject_id) ==
    [seq |-> seq, section_id |-> section_id, question_id |-> question_id,
     question_type |-> "MCQ", subject_id |-> subject_id, topic_ids |-> <<"t1">>, difficulty |-> 1,
     marks |-> None, negative_marks |-> None, is_bonus |-> FALSE, is_optional |-> FALSE]

\* longest question list of a create_test body of this part
MaxClientRefs == 2

\* q1 (phy) in either section with its own or a stale subject, q4 (chem) in
\* either section, q9 that is not stored, and q2 in a section of no pattern
ClientRefChoices ==
    {ClientRef(n, c[1], c[2], c[3]) :
        n \in 1..MaxClientRefs,
        c \in {<<"s1", "q1", "phy">>, <<"s2", "q1", "phy">>, <<"s1", "q1", "chem">>,
               <<"s1", "q4", "chem">>, <<"s2", "q4", "chem">>, <<"s1", "q9", "phy">>,
               <<"s9", "q2", "phy">>}}

\* TestCreate bodies: one phy and one chem section with room for one or two
\* references in the phy section
ClientCreateRequests ==
    {[code |-> "T1", slug |-> "t-1", series_id |-> None,
      pattern |-> [total_questions |-> n + 1,
                   sections |-> <<Section("s1", "phy", n, PhyScheme),
                                  Section("s2", "chem", 1, ChemScheme)>>],
      status |-> "draft", questions |-> qs] :
        n \in 1..2, qs \in SeqsUpTo(ClientRefChoices, MaxClientRefs)}

CreateClientTest ==
    \E data \in ClientCreateRequests, test_id \in TestIds :
        /\ test_id \notin DOMAIN tests
        /\ Serve("create_test", test_id, [total_questions |-> data.pattern.total_questions],
                 create_test(tests, test_id, data))

\* validate_test; the result is recorded in last
ValidateTest ==
    \E test_id \in TestIds :
        LET r == validate_test(tests, test_id)
        IN Serve("validate_test", test_id, r.ret, r)

NextValidate ==
    \/ CreateClientTest
    \/ ValidateTest
    \/ RemoveQuestion
    \/ DeleteTest

SpecValidate == Init /\ [][NextValidate]_vars

-----------------------------------------------------------------------------
(* The rate limiter serving several API keys.  A request thread carries the *)
(* hashed key verify_api_key resolved for it; admitted records here, for    *)
(* each admitted request, its key and the time it read.                     *)

ApiKeys == {"k1", "k2"}

InitLimiterKeys ==
    /\ tests = <<>>
    /\ last = [op |-> "init", req |-> <<>>]
    /\ now = 0
    /\ NoQuestionDocs
    /\ _requests = <<>>
    /\ pc = [t \in Threads |-> [at |-> "call"]]
    /\ admitted = <<>>
    /\ NoTopics
    /\ NoCalls

\* a request under one of the keys arrives: now = time.time()
ReadClockFor(t) ==
    \E hashed_api_key \in ApiKeys :
        /\ pc[t].at = "call"
        /\ pc' = [pc EXCEPT ![t] = [at |-> "lock", now |-> now, key |-> hashed_api_key]]
        /\ UNCHANGED <<tests, last, now, questionVars, _requests, admitted, topics, calls>>

\* with self._lock: ... ; the request is admitted or answered 429
EnterLockFor(t) ==
    /\ pc[t].at = "lock"
    /\ LET r == guarded_block(_requests, pc[t].key, pc[t].now)
       IN /\ _requests' = r.requests
          /\ admitted' = IF Raised(r.exc) THEN admitted
                         ELSE Append(admitted, [key |-> pc[t].key, ts |-> pc[t].now])
          /\ pc' = [pc EXCEPT ![t] = [at |-> "done", status |-> r.exc.status]]
    /\ UNCHANGED <<tests, last, now, questionVars, topics, calls>>

NextLimiterKeys ==
    \/ \E t \in Threads : ReadClockFor(t)
    \/ \E t \in Threads : EnterLockFor(t)
    \/ Elapse

SpecLimiterKeys == InitLimiterKeys /\ [][NextLimiterKeys]_vars


-----------------------------------------------------------------------------
(* Concurrent calls on one test *)

\* The endpoints are plain functions, which the framework runs on worker
\* threads.  A mutating handler reads the aggregate with _get_test, computes the
\* new question list on its own copy, and calls db.update_test with the whole
\* aggregate; nothing orders the read of one call against the write of another.

\* worker threads with a call on the test at the same time
MaxCallers == 2

ConcurrentCallers == 1..MaxCallers

\* Database.update_test with $push of the references not stored yet
update_test_push_new(db, test) ==
    IF IsNone(_get_test(db, test.test_id)) THEN db
    ELSE LET held == db[test.test_id].questions
             fresh == SelectSeq(test.aggregate.questions, LAMBDA q :
                          q.question_id \notin {held[i].question_id : i \in DOMAIN held})
         IN [db EXCEPT ![test.test_id].questions = SortBySeq(held \o fresh)]

\* Database.update_test with one $set per position of the new question list
update_test_set_by_position(db, test) ==
    IF IsNone(_get_test(db, test.test_id)) THEN db
    ELSE LET held == db[test.test_id].questions
             new == test.aggregate.questions
         IN [db EXCEPT ![test.test_id].questions =
                [i \in 1..Max({Len(held), Len(new)}) |-> IF i <= Len(new) THEN new[i] ELSE held[i]]]

\* Database.update_test: update_one({"test_id": ...}, {"$set": payload}), the
\* payload every field of the aggregate but test_id and created_at; a document
\* that is gone is not created again
Database_update_test(db, test) ==
    IF IsNone(_get_test(db, test.test_id)) THEN db
    ELSE [db EXCEPT ![test.test_id] = test.aggregate]

\* a worker with no call in hand
IdleCall ==
    [at |-> "idle", op |-> "", test_id |-> "", req |-> <<>>, sampled |-> <<>>,
     snapshot |-> None, over |-> None, status |-> 0, ret |-> <<>>]

\* the requests the workers serve: adds of one question to s1, a bulk add of
\* one phy question, a removal, a reorder that names nothing, and a replacement
\* that keeps the seq
ConcurrentRequests ==
    {[op |-> "add_questions_to_test",
      req |-> [section_id |-> "s1", question_ids |-> <<q>>, starting_seq |-> None,
               marks |-> None, negative_marks |-> None, is_bonus |-> FALSE,
               is_optional |-> FALSE]] : q \in {"q1", "q2"}}
    \cup {[op |-> "bulk_add_questions",
           req |-> [section_id |-> "s1",
                    criteria |-> [subject_id |-> "phy", topic_ids |-> <<>>,
                                  difficulty |-> <<>>, question_types |-> <<>>],
                    count |-> 1, strategy |-> "sequential", starting_seq |-> None]],
          [op |-> "remove_question", req |-> [question_id |-> "q1"]],
          [op |-> "reorder_questions",
           req |-> [section_id |-> "s1", question_sequence |-> <<>>]],
          [op |-> "replace_question",
           req |-> [old_question_id |-> "q1", new_question_id |-> "q2",
                    preserve_sequence |-> TRUE]]}

\* what db.find_questions can return to a call (bulk_add_questions only)
Sampled(call) ==
    IF call.op = "bulk_add_questions" THEN bulk_candidates(call.req) ELSE {<<>>}

\* the handler of a call, run on the aggregate the call has read
call_handler(c) ==
    LET db == IF IsNone(c.snapshot) THEN <<>> ELSE (c.test_id :> Val(c.snapshot))
    IN CASE c.op = "add_questions_to_test" -> add_questions_to_test(db, c.test_id, c.req)
         [] c.op = "bulk_add_questions" -> bulk_add_questions(db, c.test_id, c.req, c.sampled)
         [] c.op = "remove_question" -> remove_question(db, c.test_id, c.req.question_id)
         [] c.op = "reorder_questions" -> reorder_questions(db, c.test_id, c.req)
         [] c.op = "replace_question" ->
                replace_question(db, c.test_id, c.req.old_question_id,
                                 [new_question_id |-> c.req.new_question_id,
                                  preserve_sequence |-> c.req.preserve_sequence])

\* the test the calls work on, as create_test stores it without questions
ConcurrentTest ==
    [code |-> "T1", slug |-> "t-1", status |-> "draft",
     pattern |-> [total_questions |-> 3,
                  sections |-> <<Section("s1", "phy", 2, PhyScheme),
                                 Section("s2", "chem", 1, ChemScheme)>>],
     questions |-> <<>>]

InitConcurrent ==
    /\ tests = [id \in TestIds |-> ConcurrentTest]
    /\ last = [op |-> "init", req |-> <<>>, by |-> 0]
    /\ now = 0
    /\ NoQuestionDocs
    /\ NoRequests
    /\ NoTopics
    /\ calls = [t \in ConcurrentCallers |-> IdleCall]

\* A worker takes a request and the handler reads the aggregate: _get_test.
ReadAggregate(t) ==
    /\ calls[t].at \in {"idle", "returned"}
    /\ \E test_id \in TestIds, call \in ConcurrentRequests :
           \E sampled \in Sampled(call) :
               calls' = [calls EXCEPT ![t] =
                            [IdleCall EXCEPT !.at = "read", !.op = call.op, !.test_id = test_id,
                                             !.req = call.req, !.sampled = sampled,
                                             !.snapshot = _get_test(tests, test_id)]]
    /\ UNCHANGED <<tests, last, now, questionVars, limiterVars, topics>>

\* The handler finishes on its copy: it raises, or it calls db.update_test with
\* the aggregate it computed and returns.
WriteAggregate(t) ==
    /\ calls[t].at = "read"
    /\ LET c == calls[t]
           r == call_handler(c)
       IN /\ tests' = IF r.status = 200
                      THEN Database_update_test(tests, [test_id |-> c.test_id,
                                                        aggregate |-> Val(r.test)])
                      ELSE tests
          /\ calls' = [calls EXCEPT ![t] =
                          [c EXCEPT !.at = "returned", !.status = r.status, !.ret = r.ret,
                                    !.over = _get_test(tests, c.test_id)]]
          /\ last' = IF r.status = 200 THEN [op |-> c.op, req |-> c.req, by |-> t] ELSE last
    /\ UNCHANGED <<now, questionVars, limiterVars, topics>>

NextConcurrent ==
    \/ \E t \in ConcurrentCallers : ReadAggregate(t)
    \/ \E t \in ConcurrentCallers : WriteAggregate(t)

SpecConcurrent == InitConcurrent /\ [][NextConcurrent]_vars

-----------------------------------------------------------------------------
(* Properties *)

\* the question references of the stored test test_id
Refs(test_id) == tests[test_id].questions

Ids(questions) == {questions[i].question_id : i \in DOMAIN questions}

\* the reference of question_id in questions (ids are unique where this is used)
RefOf(questions, question_id) ==
    questions[Min({i \in DOMAIN questions : questions[i].question_id = question_id})]

\* C1: in every stored test the seq values of the question references, sorted,
\* are exactly 1..N, N the number of references of the test.
C1_SeqsAreOneToN ==
    \A test_id \in DOMAIN tests :
        SortInts([i \in DOMAIN Refs(test_id) |-> Refs(test_id)[i].seq])
            = [i \in 1..Len(Refs(test_id)) |-> i]

\* a removal left two or more references behind, numbered from 1
C1_Witness ==
    /\ last.op = "remove_question"
    /\ \E test_id \in DOMAIN tests : Len(Refs(test_id)) >= 2

\* C2: every section of a stored test holds at most section.total_questions
\* references and the test holds at most pattern.total_questions references.
C2_CapacityRespected ==
    \A test_id \in DOMAIN tests :
        LET test == tests[test_id]
        IN /\ Len(test.questions) <= test.pattern.total_questions
           /\ \A i \in DOMAIN test.pattern.sections :
                  SectionCount(test.questions, test.pattern.sections[i].section_id)
                      <= test.pattern.sections[i].total_questions

\* the references an add_questions_to_test request would add: one for each
\* distinct requested id
WouldAdd(payload) == Cardinality(Range(payload.question_ids))

\* the section or the test would be above its limit after the request
AboveLimit(test, payload) ==
    LET section == Val(_get_section(test, payload.section_id))
    IN \/ SectionCount(test.questions, payload.section_id) + WouldAdd(payload)
              > section.total_questions
       \/ Len(test.questions) + WouldAdd(payload) > test.pattern.total_questions

CapacityDetails == {"Section question limit exceeded", "Test question limit exceeded"}

\* C3: add_questions_to_test fails and stores nothing whenever the references
\* it would add bring the target section above section.total_questions or the
\* test above pattern.total_questions, and it is not rejected for capacity
\* when both counts stay within their limits.
C3_AddChecksCapacity ==
    \A test_id \in DOMAIN tests, payload \in AddRequests :
        LET test == tests[test_id]
            r == add_questions_to_test(tests, test_id, payload)
        IN ~IsNone(_get_section(test, payload.section_id)) =>
              /\ AboveLimit(test, payload) => r.status # 200 /\ r.test = Some(test)
              /\ ~AboveLimit(test, payload) => r.detail \notin CapacityDetails

\* an add returned, and one more question for the same section is now
\* rejected with the section limit error
C3_Witness ==
    /\ last.op = "add_questions_to_test"
    /\ \E test_id \in DOMAIN tests, payload \in AddRequests :
           /\ payload.section_id = last.req.section_id
           /\ Len(payload.question_ids) = 1
           /\ add_questions_to_test(tests, test_id, payload).detail
                  = "Section question limit exceeded"

\* C4: no stored test contains two question references with the same
\* question_id.
C4_NoDuplicateQuestion ==
    \A test_id \in DOMAIN tests :
        \A i, j \in DOMAIN Refs(test_id) :
            Refs(test_id)[i].question_id = Refs(test_id)[j].question_id => i = j

\* an add whose question_ids list repeats an id returned, and the question is
\* in the test
C4_Witness ==
    /\ last.op = "add_questions_to_test"
    /\ last.req.question_ids = <<"q1", "q1">>
    /\ \E test_id \in DOMAIN tests : "q1" \in Ids(Refs(test_id))

\* C5: in every stored test each question reference's subject_id equals the
\* subject_id of the section the reference names.
C5_SubjectMatchesSection ==
    \A test_id \in DOMAIN tests :
        \A i \in DOMAIN Refs(test_id) :
            \A k \in DOMAIN tests[test_id].pattern.sections :
                LET section == tests[test_id].pattern.sections[k]
                IN section.section_id = Refs(test_id)[i].section_id
                       => section.subject_id = Refs(test_id)[i].subject_id

\* the handler's result is an error and the persisted test is not what it was
ChangedOnError(test_id, r) == r.status # 200 /\ r.test # _get_test(tests, test_id)

\* some requested question is stored with another subject than the section has
OfOtherSubject(test, payload) ==
    LET section == _get_section(test, payload.section_id)
    IN /\ ~IsNone(section)
       /\ \E k \in DOMAIN payload.question_ids, i \in DOMAIN QuestionStore :
              /\ QuestionStore[i].question_id = payload.question_ids[k]
              /\ _question_from_doc(QuestionStore[i]).subject_id # Val(section).subject_id

\* C6: whenever add_questions_to_test, bulk_add_questions, remove_question,
\* reorder_questions, replace_question, update_question_marks or update_test
\* ends in an error the persisted test is what it was before the call, and an
\* add of a question of another subject than the target section's ends in an
\* error.
C6_ErrorsLeaveTestUnchanged ==
    \A test_id \in TestIds :
        /\ \A payload \in AddRequests :
               LET r == add_questions_to_test(tests, test_id, payload)
               IN /\ ~ChangedOnError(test_id, r)
                  /\ (test_id \in DOMAIN tests /\ OfOtherSubject(tests[test_id], payload))
                         => r.status # 200
        /\ \A payload \in BulkRequests :
               \A questions \in (IF payload.count > 0 THEN bulk_candidates(payload) ELSE {<<>>}) :
                   ~ChangedOnError(test_id, bulk_add_questions(tests, test_id, payload, questions))
        /\ \A question_id \in RequestIds :
               /\ ~ChangedOnError(test_id, remove_question(tests, test_id, question_id))
               /\ \A payload \in ReplaceRequests :
                      ~ChangedOnError(test_id, replace_question(tests, test_id, question_id, payload))
               /\ \A payload \in MarksRequests :
                      ~ChangedOnError(test_id,
                                      update_question_marks(tests, test_id, question_id, payload))
        /\ \A payload \in ReorderRequests :
               ~ChangedOnError(test_id, reorder_questions(tests, test_id, payload))
        /\ \A payload \in UpdateRequests :
               ~ChangedOnError(test_id, update_test(tests, test_id, payload))

\* a test with references is stored, and the add of a chem question to its
\* phy section is refused for the subject
C6_Witness ==
    \E test_id \in DOMAIN tests, payload \in AddRequests :
        /\ Refs(test_id) # <<>>
        /\ OfOtherSubject(tests[test_id], payload)
        /\ add_questions_to_test(tests, test_id, payload).detail
               = "Question does not belong to section subject"

PatternAgrees(pattern) == SumTotals(pattern.sections) = pattern.total_questions

\* C7: every stored test has pattern.total_questions equal to the sum of its
\* sections' total_questions; create_test and update_test store a pattern with
\* that equality or fail and store nothing.
C7_PatternTotalsAgree ==
    /\ \A test_id \in DOMAIN tests : PatternAgrees(tests[test_id].pattern)
    /\ \A test_id \in TestIds \ DOMAIN tests, data \in CreateRequests :
           LET r == create_test(tests, test_id, data)
           IN IF r.status = 200 THEN PatternAgrees(Val(r.test).pattern) ELSE IsNone(r.test)
    /\ \A test_id \in DOMAIN tests, payload \in UpdateRequests :
           LET r == update_test(tests, test_id, payload)
           IN IF r.status = 200 THEN PatternAgrees(Val(r.test).pattern)
              ELSE r.test = Some(tests[test_id])

\* create_test stored a pattern of two sections with capacities 2 and 1 and
\* total 3
C7_Witness ==
    /\ last.op = "create_test"
    /\ \E test_id \in DOMAIN tests :
           /\ tests[test_id].pattern.total_questions = 3
           /\ Len(tests[test_id].pattern.sections) = 2

\* C8: remove_question on a question of the test deletes exactly that
\* reference and renumbers the others 1..N-1 in their previous seq order, no
\* other field changed; on a question not in the test it fails with 404.
C8_RemoveRenumbers ==
    \A test_id \in DOMAIN tests, question_id \in RequestIds :
        LET old == Refs(test_id)
            r == remove_question(tests, test_id, question_id)
            new == Val(r.test).questions
        IN IF question_id \in Ids(old)
           THEN /\ r.status = 200
                /\ Val(r.test) = [tests[test_id] EXCEPT !.questions = new]
                /\ Len(new) = Len(old) - 1
                /\ Ids(new) = Ids(old) \ {question_id}
                /\ {new[i].seq : i \in DOMAIN new} = 1..(Len(old) - 1)
                /\ \A i \in DOMAIN new :
                       new[i] = [RefOf(old, new[i].question_id) EXCEPT !.seq = new[i].seq]
                /\ \A i, j \in DOMAIN new :
                       new[i].seq < new[j].seq <=>
                           RefOf(old, new[i].question_id).seq < RefOf(old, new[j].question_id).seq
           ELSE r.status = 404 /\ r.detail = "Question not found in test" /\ r.test = Some(tests[test_id])

\* q1 was removed from a test that keeps two references, and removing the one
\* with seq 1 moves the other to seq 1
C8_Witness ==
    /\ last.op = "remove_question"
    /\ last.req.question_id = "q1"
    /\ \E test_id \in DOMAIN tests :
           /\ Len(Refs(test_id)) = 2
           /\ \E i, j \in DOMAIN Refs(test_id) :
                  /\ Refs(test_id)[i].seq = 1
                  /\ Refs(test_id)[j].seq = 2
                  /\ RefOf(Val(remove_question(tests, test_id, Refs(test_id)[i].question_id).test).questions,
                           Refs(test_id)[j].question_id).seq = 1

\* C9: each reference add_questions_to_test creates has the request's marks
\* when given and else the correct value of the section's scheme for the
\* question's type, and the request's negative_marks when given and else the
\* scheme's incorrect value; without a scheme for the type the call fails.
C9_AddMarks ==
    \A test_id \in DOMAIN tests, payload \in AddRequests :
        LET test == tests[test_id]
            r == add_questions_to_test(tests, test_id, payload)
            section == Val(_get_section(test, payload.section_id))
            TypeOf(question_id) == Question(question_id).question_type
        IN /\ r.status = 200 =>
                  /\ {r.ret[i].question_id : i \in DOMAIN r.ret} = Range(payload.question_ids)
                  /\ \A i \in DOMAIN r.ret :
                         LET ref == r.ret[i]
                             scheme == section.marking_scheme[TypeOf(ref.question_id)]
                         IN /\ ref \in Range(Val(r.test).questions)
                            /\ ref.marks = IF payload.marks # None THEN payload.marks
                                           ELSE Some(scheme.correct)
                            /\ ref.negative_marks = IF payload.negative_marks # None
                                                    THEN payload.negative_marks
                                                    ELSE Some(scheme.incorrect)
           /\ (/\ ~IsNone(_get_section(test, payload.section_id))
               /\ \E k \in DOMAIN payload.question_ids :
                      /\ payload.question_ids[k] \in {QuestionStore[i].question_id : i \in DOMAIN QuestionStore}
                      /\ TypeOf(payload.question_ids[k]) \notin DOMAIN section.marking_scheme)
                  => r.status # 200

\* an add without overrides returned and its NAT question q2 is stored with
\* the NAT scheme's values 3 and 0
C9_Witness ==
    /\ last.op = "add_questions_to_test"
    /\ last.req.marks = None
    /\ \E test_id \in DOMAIN tests :
           \E i \in DOMAIN Refs(test_id) :
               /\ Refs(test_id)[i].question_id = "q2"
               /\ Refs(test_id)[i].question_id \in Range(last.req.question_ids)
               /\ Refs(test_id)[i].marks = Some(3)
               /\ Refs(test_id)[i].negative_marks = Some(0)

\* C10: replace_question with preserve_sequence=true stores a replacement with
\* the old reference's seq, section_id, marks, negative_marks, is_bonus and
\* is_optional, unset marks staying unset, and leaves every other reference
\* as it was.
C10_ReplaceCarriesOver ==
    \A test_id \in DOMAIN tests, old_question_id \in RequestIds, payload \in ReplaceRequests :
        LET r == replace_question(tests, test_id, old_question_id, payload)
            old == RefOf(Refs(test_id), old_question_id)
            questions == Val(r.test).questions
            new == RefOf(questions, payload.new_question_id)
        IN (payload.preserve_sequence /\ r.status = 200) =>
              /\ new.seq = old.seq
              /\ new.section_id = old.section_id
              /\ new.marks = old.marks
              /\ new.negative_marks = old.negative_marks
              /\ new.is_bonus = old.is_bonus
              /\ new.is_optional = old.is_optional
              /\ Range(questions) \ {new} = Range(Refs(test_id)) \ {old}

\* the seq of each reference once the listed values are applied in order (a
\* later item for the same question wins)
AppliedSeqs(questions, items) ==
    [i \in DOMAIN questions |->
        LET mine == {k \in DOMAIN items : items[k].question_id = questions[i].question_id}
        IN IF mine = {} THEN questions[i].seq ELSE items[Max(mine)].seq]

\* a reorder body the specification refuses: a listed question that is not in
\* the test or not in the named section, a seq below 1, or resulting seqs of
\* the whole test that are not 1..N without repetition
ReorderRefused(test, body) ==
    LET items == body.question_sequence
        applied == AppliedSeqs(test.questions, items)
    IN \/ \E k \in DOMAIN items :
              \/ items[k].question_id \notin Ids(test.questions)
              \/ RefOf(test.questions, items[k].question_id).section_id # body.section_id
              \/ items[k].seq < 1
       \/ SortInts(applied) # [i \in 1..Len(applied) |-> i]

\* C11: reorder_questions fails and stores nothing if a listed question is not
\* in the test or not in the named section, has seq < 1, or the resulting seqs
\* of the whole test are not a duplicate-free 1..N; otherwise it succeeds and
\* stores exactly the listed seq values.
C11_ReorderApplies ==
    \A test_id \in DOMAIN tests, body \in ReorderBodies :
        LET test == tests[test_id]
            r == reorder_questions_endpoint(tests, test_id, body)
        IN IF ReorderRefused(test, body)
           THEN r.status # 200 /\ r.test = Some(test)
           ELSE /\ r.status = 200
                /\ [i \in DOMAIN Val(r.test).questions |-> Val(r.test).questions[i].seq]
                       = AppliedSeqs(test.questions, body.question_sequence)

\* a new pattern the specification refuses for a test: a repeated section id,
\* a section of a subject that is not stored, capacities that do not sum to
\* total_questions, a reference of a section the pattern lacks, or references
\* that break the question-set checks against the pattern
PatternRefused(test, pattern) ==
    LET sections == pattern.sections
        questions == test.questions
    IN \/ \E i, j \in DOMAIN sections : i # j /\ sections[i].section_id = sections[j].section_id
       \/ \E i \in DOMAIN sections : sections[i].subject_id \notin SubjectStore
       \/ ~PatternAgrees(pattern)
       \/ \E k \in DOMAIN questions :
              questions[k].section_id \notin {sections[i].section_id : i \in DOMAIN sections}
       \/ Cardinality(Ids(questions)) # Len(questions)
       \/ {questions[k].seq : k \in DOMAIN questions} # 1..Len(questions)
       \/ Len(questions) > pattern.total_questions
       \/ \E i \in DOMAIN sections :
              SectionCount(questions, sections[i].section_id) > sections[i].total_questions

\* C12: update_test with a new pattern fails and leaves the stored test as it
\* was when the pattern is refused (section ids, subjects, totals, references
\* of absent sections, question-set checks); otherwise it stores the test with
\* the new pattern and the question list unchanged.
C12_UpdatePattern ==
    \A test_id \in DOMAIN tests, payload \in UpdateRequests :
        "pattern" \in DOMAIN payload =>
            LET test == tests[test_id]
                r == update_test(tests, test_id, payload)
            IN IF PatternRefused(test, payload.pattern)
               THEN r.status # 200 /\ r.test = Some(test)
               ELSE r.status = 200 /\ r.test = Some([test EXCEPT !.pattern = payload.pattern])

\* the release configuration is open at the instant t
ReleaseOpen(cfg, t) ==
    /\ cfg.has_solutions
    /\ \/ cfg.release_mode = "after_submission"
       \/ cfg.release_mode = "scheduled" /\ cfg.release_at # None /\ Val(cfg.release_at) <= t

AllResolve(test) ==
    Ids(test.questions) \subseteq {QuestionStore[i].question_id : i \in DOMAIN QuestionStore}

\* the two gated reads of a test at the current instant
SolvedCall(test_id, which) ==
    IF which = "get_test_with_solutions" THEN get_test_with_solutions(tests, test_id, now)
    ELSE get_answer_key(tests, test_id, now)

GatedReads == {"get_test_with_solutions", "get_answer_key"}

-----------------------------------------------------------------------------
(* Properties of the question repository *)

IsPublished(doc) == doc.usage.status = "published"
HasSubject(doc) == ~IsNone(doc.taxonomy.subject_id) /\ Val(doc.taxonomy.subject_id) # ""

\* The usage.status and taxonomy.subject_id a patch asks the document to have.
AskedStatus(existing, patch) ==
    IF "usage" \in DOMAIN patch /\ "status" \in DOMAIN patch.usage
    THEN patch.usage.status ELSE existing.usage.status
AskedSubject(existing, patch) ==
    IF "taxonomy" \in DOMAIN patch /\ "subject_id" \in DOMAIN patch.taxonomy
    THEN patch.taxonomy.subject_id ELSE existing.taxonomy.subject_id

\* C14: every stored question document whose usage.status is published has a
\* non-empty taxonomy.subject_id, whatever create_question and
\* update_question calls came before, partial patches of usage or of
\* taxonomy alone included; a create or an update that asks for a published
\* document without a subject fails and leaves the collection as it was.
C14_PublishedHaveSubject ==
    /\ \A i \in DOMAIN storage : IsPublished(storage[i]) => HasSubject(storage[i])
    /\ \A body \in CreateBodies :
           LET r == create_question_endpoint(body, question_uuid(Len(storage) + 1), now, rng)
           IN (IsPublished(body) /\ ~HasSubject(body))
                  => r.status \notin {200, 201} /\ QStored(storage, "q_9", r) = storage
    /\ \A i \in DOMAIN storage, patch \in UpdatePatches :
           LET existing == storage[i]
               r == update_question(storage, existing._id, patch, now)
           IN (AskedStatus(existing, patch) = "published"
               /\ (IsNone(AskedSubject(existing, patch)) \/ Val(AskedSubject(existing, patch)) = ""))
                  => r.status # 200 /\ QStored(storage, existing._id, r) = storage

\* a patch of taxonomy alone has emptied the subject_id of a stored draft, and
\* the patch of usage alone that would publish it is refused
C14_Witness ==
    /\ last.op = "update_question"
    /\ last.req.fields = {"taxonomy"}
    /\ \E i \in DOMAIN storage :
           /\ storage[i]._id = last.req.question_id
           /\ ~IsPublished(storage[i])
           /\ storage[i].taxonomy.subject_id = Some("")
           /\ storage[i].version = 2
           /\ update_question(storage, storage[i]._id, [usage |-> [status |-> "published"]], now).status = 400

KeyMatchesType(doc) ==
    LET key == doc.answer_key
        ids == OptIds(doc.options)
    IN IF doc.type \in {"single_choice", "true_false"}
       THEN key.type = "single" /\ ~IsNone(key.option_id) /\ Val(key.option_id) \in ids
       ELSE IF doc.type = "multi_choice"
       THEN key.type = "multi" /\ ~IsNone(key.option_ids) /\ Range(Val(key.option_ids)) \subseteq ids
       ELSE key.type = "value" /\ doc.options = <<>> /\ ~IsNone(key.value) /\ Val(key.value) # ""

\* C15: every question document create_question or update_question stores has
\* an answer key matching its type: single_choice and true_false have type
\* single and an option_id that is the id of one of the document's options,
\* multi_choice has type multi and only option_ids of the document's options,
\* integer and short_text have type value, no options and a non-empty value;
\* a create or an update whose document would break this fails.
C15_AnswerKeyMatchesType ==
    /\ \A i \in DOMAIN storage : KeyMatchesType(storage[i])
    /\ \A body \in CreateBodies :
           LET r == create_question_endpoint(body, question_uuid(Len(storage) + 1), now, rng)
           IN r.status \in {200, 201} => KeyMatchesType(Val(r.doc))
    /\ \A i \in DOMAIN storage, patch \in UpdatePatches :
           LET r == update_question(storage, storage[i]._id, patch, now)
           IN r.status = 200 => KeyMatchesType(Val(r.doc))

\* C16: a question's version is 1 after create_question, one more after every
\* update_question that succeeds and what it was after one that fails;
\* update_question never changes question_id, created_at or rand_key.
C16_VersionCounts ==
    /\ \A body \in CreateBodies :
           LET r == create_question_endpoint(body, question_uuid(Len(storage) + 1), now, rng)
           IN r.status \in {200, 201} => Val(r.doc).version = 1
    /\ \A i \in DOMAIN storage, patch \in UpdatePatches :
           LET existing == storage[i]
               r == update_question(storage, existing._id, patch, now)
               after == Val(r.doc)
           IN /\ after.version = IF r.status = 200 THEN existing.version + 1 ELSE existing.version
              /\ after.question_id = existing.question_id
              /\ after.created_at = existing.created_at
              /\ after.rand_key = existing.rand_key

\* The fields of a body of POST /questions
SubmittedFields == {"text", "type", "options", "answer_key", "solution", "taxonomy", "difficulty", "usage"}

\* C17: get_question without a flag returns a result that has neither an
\* answer_key nor a solution field (absent, not None); with include_answer_key
\* alone the result has the answer_key and no solution field; with both flags
\* it has every submitted field of the document, answer_key and solution
\* included.
C17_Projections ==
    \A i \in DOMAIN storage :
        LET doc == storage[i]
            public == get_question(storage, doc._id, FALSE, FALSE)
            preview == get_question(storage, doc._id, FALSE, TRUE)
            full == get_question(storage, doc._id, TRUE, TRUE)
        IN /\ public.status = 200 =>
                  "answer_key" \notin DOMAIN public.ret /\ "solution" \notin DOMAIN public.ret
           /\ preview.status = 200 =>
                  /\ "answer_key" \in DOMAIN preview.ret
                  /\ preview.ret.answer_key = Some(doc.answer_key)
                  /\ "solution" \notin DOMAIN preview.ret
           /\ full.status = 200 =>
                  /\ SubmittedFields \subseteq DOMAIN full.ret
                  /\ full.ret.answer_key = Some(doc.answer_key)
                  /\ \A f \in SubmittedFields \ {"answer_key"} : full.ret[f] = doc[f]

-----------------------------------------------------------------------------
(* Properties of listing and sampling *)

\* the filter of a direct repo.sample call: the documents of schema version 2
VersionFilter == _build_filters(None, None, None, FALSE)

GeneratorStates == 0..(RandomModulus - 1)

\* C18: with a non-empty seed, sample_questions over an unchanged collection
\* returns the same questions in the same order whenever it is called, that
\* is whatever state the random module's generator is in and whatever
\* Mongo's $sample would pick, for QuestionRepo and for InMemoryQuestionRepo;
\* so do the repositories' own sample methods.
C18_SeededSampleRepeats ==
    /\ \A req \in SampleRequests :
           ~FalsyStr(req.seed) =>
               /\ \A s \in GeneratorStates :
                      sample_questions("memory", storage, req, s, <<>>).items
                          = sample_questions("memory", storage, req, rng, <<>>).items
               /\ \A pick \in SamplePicks(MatchCount(storage, req), Max({1, Min({req.limit, SampleCap})})) :
                      sample_questions("mongo", storage, req, rng, pick).items
                          = sample_questions("mongo", storage, req, rng, <<>>).items
    /\ \A limit \in 1..MaxDocs, seed \in Seeds :
           ~FalsyStr(seed) =>
               /\ \A s \in GeneratorStates :
                      memory_sample(storage, VersionFilter, limit, seed, s).docs
                          = memory_sample(storage, VersionFilter, limit, seed, rng).docs
               /\ \A pick \in SamplePicks(Len(storage), limit) :
                      mongo_sample(storage, VersionFilter, limit, seed, pick)
                          = mongo_sample(storage, VersionFilter, limit, seed, <<>>)

\* a seeded sample was taken from a collection of several documents: the
\* in-memory repository returns them in another order than an unseeded call
\* would from the generator's state, and the Mongo repository returns the
\* published ones wrapped around the seed, not in insertion order
C18_Witness ==
    /\ last.op = "sample"
    /\ last.req.seed = Some("seed123")
    /\ Len(storage) >= 2
    /\ memory_sample(storage, VersionFilter, Len(storage), Some("seed123"), rng).docs
           # memory_sample(storage, VersionFilter, Len(storage), None, rng).docs
    /\ LET req == [subject_id |-> None, status_value |-> Some("published"), is_active |-> Some(TRUE),
                   limit |-> MaxDocs, seed |-> Some("seed123")]
           items == sample_questions("mongo", storage, req, rng, <<>>).items
       IN /\ Len(items) >= 2
          /\ items[1].question_id = storage[2]._id
          /\ items[2].question_id = storage[1]._id

\* C19: discover_questions returns no more items than the requested limit
\* and no more than 200, whatever the limit, 0 and negative ones included (no
\* item then), and never skips a negative number of items.
C19_DiscoverBounded ==
    \A repo_kind \in RepoKinds, req \in DiscoverRequests :
        LET r == discover_questions(repo_kind, storage, req)
        IN /\ Len(r.items) <= Max({0, Min({req.limit, DiscoverCap})})
           /\ r.skip >= 0

-----------------------------------------------------------------------------
(* Properties of the rate limiter *)

\* the admitted requests whose recorded timestamp lies in [from, from + Window)
AdmittedIn(from) == {i \in DOMAIN admitted : from <= admitted[i] /\ admitted[i] < from + Window}

\* C20: for one RateLimiter(limit, window) and one API key, however the
\* concurrent requests interleave, no interval of length window holds the
\* recorded timestamps of more than limit admitted requests: one request
\* more inside a window is answered 429.
C20_WindowHoldsLimit ==
    \A from \in 0..MaxTime : Cardinality(AdmittedIn(from)) <= Limit

-----------------------------------------------------------------------------
(* Properties of the test status *)

\* a step of the status along draft -> published -> archived, or none
StatusForward(from, to) ==
    \/ from = to
    \/ from = "draft" /\ to = "published"
    \/ from = "published" /\ to = "archived"

\* C21: the status of a stored test only moves forward along
\* draft -> published -> archived: no operation takes a test that stays stored
\* from published back to draft, from archived to another status, or from
\* draft directly to archived.
C21_StatusMovesForward ==
    [][\A test_id \in DOMAIN tests \cap DOMAIN tests' :
           StatusForward(tests[test_id].status, tests'[test_id].status)]_vars

-----------------------------------------------------------------------------
(* Properties of the topics *)

\* C22: in every reachable state of the topics collection every id in a
\* stored topic's related_topic_ids and prerequisite_topic_ids is the id of a
\* stored topic with the same subject_id.
C22_TopicReferencesResolve ==
    \A id \in DOMAIN topics :
        \A ref_id \in Range(topics[id].related_topic_ids)
                         \cup Range(topics[id].prerequisite_topic_ids) :
            /\ ref_id \in DOMAIN topics
            /\ topics[ref_id].subject_id = topics[id].subject_id

-----------------------------------------------------------------------------
(* Properties of the order and position of added and replaced references *)

\* C23: add_questions_to_test assigns seq values in the order of the request's
\* question_ids: the i-th id of the list (i from 1) receives seq = start + i - 1,
\* start being starting_seq when given and else one past the test's current
\* maximum seq (1 for an empty test), and the call returns exactly the newly
\* created references.
C23_AddSeqsFollowRequest ==
    \A test_id \in DOMAIN tests, payload \in AddRequests :
        LET r == add_questions_to_test(tests, test_id, payload)
            ids == payload.question_ids
            start == IF ~IsNone(payload.starting_seq) THEN Val(payload.starting_seq)
                     ELSE _next_seq(Refs(test_id))
        IN r.status = 200 =>
              /\ Len(r.ret) = Len(ids)
              /\ \A i \in DOMAIN ids :
                     /\ r.ret[i].question_id = ids[i]
                     /\ r.ret[i].seq = start + i - 1
              /\ Range(r.ret) = Range(Val(r.test).questions) \ Range(Refs(test_id))

\* an old reference and a new question that replace_question is specified to
\* accept: the old question is in the test, the new one resolves, is not in
\* the test, has the subject of the old reference's section and a marking
\* scheme there
Replaceable(test, old_question_id, new_question_id) ==
    /\ old_question_id \in Ids(test.questions)
    /\ new_question_id \in {QuestionStore[i].question_id : i \in DOMAIN QuestionStore}
    /\ new_question_id \notin Ids(test.questions)
    /\ LET section == _get_section(test, RefOf(test.questions, old_question_id).section_id)
       IN /\ ~IsNone(section)
          /\ Question(new_question_id).subject_id = Val(section).subject_id
          /\ Question(new_question_id).question_type \in DOMAIN Val(section).marking_scheme

\* C24: replace_question with preserve_sequence=false, for an old question of
\* the test and a new question that resolves, is not in the test, has the
\* section's subject and a configured marking scheme, succeeds and stores the
\* replacement at the next sequence number (one past the current maximum)
\* with the old reference removed.
C24_ReplaceAppends ==
    \A test_id \in DOMAIN tests, old_question_id \in RequestIds, payload \in ReplaceRequests :
        LET test == tests[test_id]
            r == replace_question(tests, test_id, old_question_id, payload)
            questions == Val(r.test).questions
        IN (~payload.preserve_sequence
                /\ Replaceable(test, old_question_id, payload.new_question_id)) =>
              /\ r.status = 200
              /\ old_question_id \notin Ids(questions)
              /\ payload.new_question_id \in Ids(questions)
              /\ RefOf(questions, payload.new_question_id).seq = _next_seq(test.questions)

-----------------------------------------------------------------------------
(* Properties of validate_test *)

\* what makes a test valid: as many references as pattern.total_questions,
\* each section filled to its total_questions, seqs duplicate-free and 1..N,
\* every question stored, and every reference's subject_id that of its question
Sound(test) ==
    LET questions == test.questions
        stored_ids == {QuestionStore[i].question_id : i \in DOMAIN QuestionStore}
    IN /\ Len(questions) = test.pattern.total_questions
       /\ \A k \in DOMAIN test.pattern.sections :
              SectionCount(questions, test.pattern.sections[k].section_id)
                  = test.pattern.sections[k].total_questions
       /\ \A i, j \in DOMAIN questions : questions[i].seq = questions[j].seq => i = j
       /\ {questions[i].seq : i \in DOMAIN questions} = 1..Len(questions)
       /\ \A i \in DOMAIN questions :
              /\ questions[i].question_id \in stored_ids
              /\ questions[i].subject_id = Question(questions[i].question_id).subject_id

\* C25: validate_test never modifies stored state and returns is_valid=true
\* exactly when its issues list is empty, which is exactly when the number of
\* references equals pattern.total_questions, every section's reference count
\* equals its total_questions, the seqs are duplicate-free and contiguous 1..N,
\* every referenced question id resolves in the question store, and every
\* reference's stored subject_id equals the live question's subject_id.
C25_ValidateTest ==
    \A test_id \in DOMAIN tests :
        LET r == validate_test(tests, test_id)
        IN /\ r.status = 200
           /\ r.test = Some(tests[test_id])
           /\ r.ret.is_valid <=> r.ret.issues = <<>>
           /\ r.ret.is_valid <=> Sound(tests[test_id])

\* validate_test found a test with two references valid, and the test without
\* its first reference is not valid
C25_Witness ==
    /\ last.op = "validate_test"
    /\ last.req.is_valid
    /\ \E test_id \in DOMAIN tests :
           /\ Len(Refs(test_id)) = 2
           /\ validate_test(tests, test_id).ret.is_valid
           /\ LET r == remove_question(tests, test_id, Refs(test_id)[1].question_id)
              IN ~validate_test(test_id :> Val(r.test), test_id).ret.is_valid

\* C29: whenever validate_test returns is_valid=true for a test, the test has
\* no two references with the same question_id, every reference names a
\* section_id of the pattern, and every reference's subject_id equals the
\* subject_id of the section it names.
C29_ValidTestsAreWellFormed ==
    \A test_id \in DOMAIN tests :
        LET test == tests[test_id]
            questions == test.questions
        IN validate_test(tests, test_id).ret.is_valid =>
              /\ \A i, j \in DOMAIN questions :
                     questions[i].question_id = questions[j].question_id => i = j
              /\ \A i \in DOMAIN questions :
                     LET section == _get_section(test, questions[i].section_id)
                     IN /\ ~IsNone(section)
                        /\ Val(section).subject_id = questions[i].subject_id

-----------------------------------------------------------------------------
(* Properties of seeded sampling *)

\* the filters of the sampling requests and of a request for every version 2 document
SampleFilters ==
    {_build_filters(req.subject_id, req.status_value, req.is_active, TRUE) : req \in SampleRequests}
        \cup {VersionFilter}

\* the documents of the collection that match the filters
MatchingDocs(filters) == {storage[i] : i \in {j \in DOMAIN storage : mongo_match(storage[j], filters)}}

\* a stands before b on the deck that starts at the seed's point p: the
\* documents with random key >= p in ascending key order, then those with
\* random key < p in ascending key order
BeforeOnDeck(a, b, p) ==
    \/ AtOrAfterSeed(a, p) /\ ~AtOrAfterSeed(b, p)
    \/ AtOrAfterSeed(a, p) = AtOrAfterSeed(b, p) /\ a.rand_key < b.rand_key

-----------------------------------------------------------------------------
(* Properties of the rate limiter under several keys *)

\* the admitted requests of a key with a timestamp at or after from
AdmittedSince(hashed_api_key, from) ==
    {i \in DOMAIN admitted : admitted[i].key = hashed_api_key /\ admitted[i].ts >= from}

\* C30: a rejected request is not recorded and consumes no quota, and
\* requests under one API key never change the outcome for another key: a
\* request for key K at time t is admitted exactly when fewer than limit
\* previously admitted requests of K have timestamps >= t - window, so a key
\* that stops being admitted is admitted again once enough of its admitted
\* requests are older than the window, however many rejected requests it sent
\* meanwhile.
C30_AdmittedByOwnHistory ==
    \A t \in Threads :
        pc[t].at = "lock" =>
            LET r == guarded_block(_requests, pc[t].key, pc[t].now)
            IN /\ Raised(r.exc) => r.requests = _requests
               /\ \A k \in DOMAIN _requests \ {pc[t].key} : r.requests[k] = _requests[k]
               /\ ~Raised(r.exc)
                      <=> Cardinality(AdmittedSince(pc[t].key, pc[t].now - Window)) < Limit

-----------------------------------------------------------------------------
(* Properties of concurrent calls on one test *)

\* two add_questions_to_test calls have returned 200; both had read the same
\* aggregate, earlier wrote first, and later wrote over what earlier had stored
RacedAdds(earlier, later) ==
    /\ earlier # later
    /\ \A t \in {earlier, later} :
           /\ calls[t].at = "returned"
           /\ calls[t].op = "add_questions_to_test"
           /\ calls[t].status = 200
    /\ calls[earlier].test_id = calls[later].test_id
    /\ calls[earlier].snapshot = calls[later].snapshot
    /\ calls[earlier].over = calls[earlier].snapshot
    /\ Ids(Val(calls[later].over).questions)
           = Ids(Val(calls[earlier].snapshot).questions) \cup Ids(calls[earlier].ret)
    /\ last.by = later

\* C27: when two add_questions_to_test calls on one test both read the
\* aggregate before either writes, both return 200 with the references they
\* report as added, and the stored test is the later writer's aggregate: what
\* both had read plus the later writer's references.  The earlier writer's
\* references are not in it.
C27_LaterWriteWins ==
    \A earlier, later \in ConcurrentCallers :
        RacedAdds(earlier, later) =>
            LET read == Val(calls[later].snapshot).questions
                stored == Refs(calls[later].test_id)
            IN /\ calls[earlier].ret # <<>>
               /\ calls[later].ret # <<>>
               /\ stored = SortBySeq(read \o calls[later].ret)
               /\ \A q \in Ids(calls[earlier].ret) \ Ids(calls[later].ret) : q \notin Ids(stored)

\* two adds of different questions raced: both returned their reference, and
\* the earlier writer's question is not in the stored test
C27_Witness ==
    \E earlier, later \in ConcurrentCallers :
        /\ RacedAdds(earlier, later)
        /\ Ids(calls[earlier].ret) \cap Ids(calls[later].ret) = {}
        /\ Ids(calls[earlier].ret) # {}
        /\ Ids(calls[earlier].ret) \cap Ids(Refs(calls[later].test_id)) = {}
        /\ Ids(calls[later].ret) \subseteq Ids(Refs(calls[later].test_id))

\* C28: under every interleaving of the reads and writes of concurrent
\* add_questions_to_test, bulk_add_questions, remove_question,
\* reorder_questions and replace_question calls on one test, the stored
\* question list has the seqs 1..N and no question_id twice.
C28_RacesKeepListsWellFormed ==
    \A test_id \in DOMAIN tests :
        LET questions == tests[test_id].questions
        IN /\ {questions[i].seq : i \in DOMAIN questions} = 1..Len(questions)
           /\ Cardinality(Ids(questions)) = Len(questions)

\* a call wrote over an aggregate it had not read: its write discarded
\* another call's change, and the stored list holds references
C28_Witness ==
    \E t \in ConcurrentCallers :
        /\ calls[t].at = "returned"
        /\ calls[t].status = 200
        /\ last.by = t
        /\ calls[t].over # calls[t].snapshot
        /\ Len(Refs(calls[t].test_id)) >= 2

====
